---- MODULE Spec2Model ----
(***************************************************************************)
(* Timeline Visualizer: document parsing (Parser) and timeline layout      *)
(* (Renderer.renderTimeline).                                              *)
(*                                                                         *)
(* A text is a sequence of characters; a character is a one-element        *)
(* string.  Offsets are 0-based as in the TypeScript source, sequence      *)
(* indices are 1-based.  An instant (Date.getTime) is counted in seconds.  *)
(***************************************************************************)
EXTENDS Integers, Sequences, FiniteSets, TLC

VARIABLES
    raw,            \* the markdown rendered: markdownInput.value, or that of an update
    showSwimlanes,  \* the caller's swimlane preference (TimelineApp.useSwimlanes)
    tz,             \* the environment's offset of local time from UTC, seconds
    legacy,         \* what the engine's Date constructor does with a non-ISO string
    pc,             \* "edit" before the render, "rendered" after it
    title,          \* parsedTop.title, <<>> for null
    body,           \* parsedTop.body
    bodyOffset,     \* fullMarkdown.indexOf(bodyText)
    blocks,         \* the eventBlocks of the last parseEvents call
    parsed,         \* the events in the order parseEvents returned them
    allEvents,      \* Renderer.allEvents: the events in rendered order
    uniqueGroups,   \* the distinct lanes in first-seen order of the sorted events
    isSwimlaneMode, \* whether the container carries the class is-swimlanes
    today,          \* local midnight of the day of the render
    insertIndex,    \* addTodayMarker's insertIndex, <<>> when no marker is added
    children,       \* the container's timeline items and today marker, in document order
    token,          \* the argument of a direct parseDate call
    result,         \* what that call returned
    prevParsed,     \* the events of the render before the last input
    editedBlock,    \* the block the last input replaced, 0 if none
    activeFilters,  \* Search.activeFilters of the main window
    searchInput,    \* searchInput.value of the main window
    searchTimeoutId, \* the timer of the search input is set
    isOpen,         \* Presentation.isOpen(): the presentation window is open
    channel,        \* the messages posted to the presentation window and not yet handled
    presMarkdown,   \* the markdown the presentation window rendered last, <<>> before the first
    presEvents,     \* the events the presentation window rendered, in rendered order
    presFilters,    \* activeFilters of the presentation window
    presQuery,      \* currentSearchQuery of the presentation window
    undoHistory,    \* Storage.undoHistory
    redoHistory,    \* Storage.redoHistory
    isUndoRedoAction, \* Storage.isUndoRedoAction
    storedHistory,  \* localStorage's STORAGE_KEYS.HISTORY item, <<>> when not set
    undone,         \* the number of undo operations so far
    rowHeight,      \* the layout: the height of a row of the container, px
    durationTimers, \* the items of the container whose renderDurationBar timer is set
    connectionTimers, \* the calculateConnectionLines timers that are set
    bars,           \* for each item of the container the heights of its duration bars
    lineHeight,     \* for each item its --connection-line-height, <<>> when not set
    laneLast,       \* the items with the class lane-last-item
    presTimers,     \* the event lists of the presentation window's pending addDurationBars timers
    presBars,       \* for each item of the presentation window the heights of its duration bars
    presTheme,      \* the data-theme attribute of the presentation window
    debounceTimers, \* the debounce timers of handleMarkdownInput that are set
    autosaveTimers, \* the autosave timers of handleMarkdownInput that are set
    autosaved,      \* localStorage's STORAGE_KEYS.AUTOSAVE item, <<>> when not set
    currentTheme,   \* TimelineApp.currentTheme and the data-theme attribute
    storedTheme,    \* localStorage's STORAGE_KEYS.THEME item, <<>> when not set
    systemDark,     \* whether (prefers-color-scheme: dark) matches
    toggled         \* whether the user has toggled the theme

envVars == <<showSwimlanes, tz, legacy, rowHeight>>

renderVars == <<title, body, bodyOffset, blocks, parsed, allEvents, uniqueGroups,
                isSwimlaneMode, today, insertIndex, children,
                durationTimers, connectionTimers, bars, lineHeight, laneLast>>

callVars == <<token, result>>

editVars == <<prevParsed, editedBlock>>

searchVars == <<activeFilters, searchInput, searchTimeoutId>>

presVars == <<isOpen, channel, presMarkdown, presEvents, presFilters, presQuery,
              presTimers, presBars, presTheme>>

histVars == <<undoHistory, redoHistory, isUndoRedoAction, storedHistory, undone>>

saveVars == <<debounceTimers, autosaveTimers, autosaved>>

themeVars == <<currentTheme, storedTheme, systemDark, toggled>>

vars == <<raw, pc, envVars, renderVars, callVars, editVars, searchVars, presVars, histVars,
          saveVars, themeVars>>

\* ------------------------------------------------------------------------
\* Characters and strings
\* ------------------------------------------------------------------------
\* an optional value: <<>> is null, <<x>> is x
None == <<>>
Some(x) == <<x>>

\* const x = e; F(x): e is evaluated once and x names its value
Let(e, F(_)) == CHOOSE r \in {F(x) : x \in {e}} : TRUE

\* the least k in lo..hi with P(k), hi + 1 if there is none: where a search
\* that runs from lo towards hi stops
FirstIndex(lo, hi, P(_)) ==
    Let({k \in lo..hi : P(k)}, LAMBDA found :
        IF found = {} THEN hi + 1 ELSE CHOOSE k \in found : \A j \in found : k <= j)

LF == "\n"
CR == "\r"
SP == " "

\* JavaScript \s and String.prototype.trim, over the characters of the model
IsWs(c) == c \in {SP, LF, CR, "\t"}

\* JavaScript . (no s flag): anything but a line terminator
IsDot(c) == c \notin {LF, CR}

IsDigit(c) == c \in {"0", "1", "2", "3", "4", "5", "6", "7", "8", "9"}

\* String.prototype.toLowerCase
ToLower(c) ==
    CASE c = "A" -> "a" [] c = "B" -> "b" [] c = "C" -> "c" [] c = "D" -> "d" [] c = "E" -> "e"
      [] c = "F" -> "f" [] c = "G" -> "g" [] c = "H" -> "h" [] c = "I" -> "i" [] c = "J" -> "j"
      [] c = "K" -> "k" [] c = "L" -> "l" [] c = "M" -> "m" [] c = "N" -> "n" [] c = "O" -> "o"
      [] c = "P" -> "p" [] c = "Q" -> "q" [] c = "R" -> "r" [] c = "S" -> "s" [] c = "T" -> "t"
      [] c = "U" -> "u" [] c = "V" -> "v" [] c = "W" -> "w" [] c = "X" -> "x" [] c = "Y" -> "y"
      [] c = "Z" -> "z" [] c = "Ä" -> "ä" [] c = "Ö" -> "ö" [] c = "Ü" -> "ü"
      [] OTHER -> c

ToUpper(c) ==
    CASE c = "a" -> "A" [] c = "b" -> "B" [] c = "c" -> "C" [] c = "d" -> "D" [] c = "e" -> "E"
      [] c = "f" -> "F" [] c = "g" -> "G" [] c = "h" -> "H" [] c = "i" -> "I" [] c = "j" -> "J"
      [] c = "k" -> "K" [] c = "l" -> "L" [] c = "m" -> "M" [] c = "n" -> "N" [] c = "o" -> "O"
      [] c = "p" -> "P" [] c = "q" -> "Q" [] c = "r" -> "R" [] c = "s" -> "S" [] c = "t" -> "T"
      [] c = "u" -> "U" [] c = "v" -> "V" [] c = "w" -> "W" [] c = "x" -> "X" [] c = "y" -> "Y"
      [] c = "z" -> "Z" [] c = "ä" -> "Ä" [] c = "ö" -> "Ö" [] c = "ü" -> "Ü"
      [] OTHER -> c

LowerStr(s) == [i \in 1..Len(s) |-> ToLower(s[i])]

\* an index clamped to 0..Len(s), as substring clamps its arguments
Clamp(s, i) == IF i < 0 THEN 0 ELSE IF i > Len(s) THEN Len(s) ELSE i

\* s.substring(from, to), 0-based
Substring(s, from, to) ==
    IF Clamp(s, from) <= Clamp(s, to)
    THEN SubSeq(s, Clamp(s, from) + 1, Clamp(s, to))
    ELSE SubSeq(s, Clamp(s, to) + 1, Clamp(s, from))

\* first 1-based index >= i of a character of s that is not whitespace, Len(s)+1 if none
RECURSIVE SkipWs(_, _)
SkipWs(s, i) == IF i <= Len(s) /\ IsWs(s[i]) THEN SkipWs(s, i + 1) ELSE i

\* first 1-based index >= i of a character of s that . does not match, Len(s)+1 if none
RECURSIVE SkipDot(_, _)
SkipDot(s, i) == IF i <= Len(s) /\ IsDot(s[i]) THEN SkipDot(s, i + 1) ELSE i

\* last 1-based index <= i of a character of s that is not whitespace, 0 if none
RECURSIVE SkipWsBack(_, _)
SkipWsBack(s, i) == IF i >= 1 /\ IsWs(s[i]) THEN SkipWsBack(s, i - 1) ELSE i

\* String.prototype.trim
Trim(s) == SubSeq(s, SkipWs(s, 1), SkipWsBack(s, Len(s)))

\* whether p occurs in s at 1-based index i
StartsAt(s, p, i) ==
    /\ i >= 1
    /\ i + Len(p) - 1 <= Len(s)
    /\ \A k \in 1..Len(p) : s[i + k - 1] = p[k]

\* the same, ignoring case (the i flag)
StartsAtCI(s, p, i) ==
    /\ i >= 1
    /\ i + Len(p) - 1 <= Len(s)
    /\ \A k \in 1..Len(p) : ToLower(s[i + k - 1]) = ToLower(p[k])

\* String.prototype.indexOf: 0-based index of the first occurrence, -1 if none
IndexOf(s, p) ==
    Let(FirstIndex(1, Len(s) - Len(p) + 1, LAMBDA k : StartsAt(s, p, k)), LAMBDA i :
        IF i > Len(s) - Len(p) + 1 THEN -1 ELSE i - 1)

\* s.replace(/\r\n/g, '\n'), from the 1-based index start on
RECURSIVE ReplaceFrom(_, _)
ReplaceFrom(s, start) ==
    Let(FirstIndex(start, Len(s) - 1, LAMBDA k : s[k] = CR /\ s[k + 1] = LF), LAMBDA i :
        IF i >= Len(s) THEN SubSeq(s, start, Len(s))
        ELSE SubSeq(s, start, i - 1) \o <<LF>> \o ReplaceFrom(s, i + 2))

ReplaceCRLF(s) == ReplaceFrom(s, 1)

\* s.split('\n') from the 1-based index start on: always at least one line
RECURSIVE SplitFrom(_, _)
SplitFrom(s, start) ==
    Let(FirstIndex(start, Len(s), LAMBDA k : s[k] = LF), LAMBDA i :
        IF i > Len(s) THEN <<SubSeq(s, start, Len(s))>>
        ELSE <<SubSeq(s, start, i - 1)>> \o SplitFrom(s, i + 1))

SplitLF(s) == SplitFrom(s, 1)

\* lines.join('\n')
RECURSIVE JoinLF(_)
JoinLF(lines) ==
    IF lines = <<>> THEN <<>>
    ELSE IF Len(lines) = 1 THEN lines[1]
    ELSE lines[1] \o <<LF>> \o JoinLF(Tail(lines))

\* ------------------------------------------------------------------------
\* Parser.extractTitleFromMarkdown
\* ------------------------------------------------------------------------
TitleKey == <<"t", "i", "t", "l", "e", ":">>

\* the capture group (.+) of a regular expression whose remainder is
\* \s*(.+)\s*$ and whose \s* starts at index i: the whitespace run is
\* skipped, the group takes the following run of . characters, and only
\* whitespace may follow.  <<>> when the expression does not match or the
\* group holds whitespace only (m[1].trim() is then empty).
CaptureToEnd(line, i) ==
    Let(SkipWs(line, i), LAMBDA from :
    Let(SkipDot(line, from), LAMBDA to :
        IF from <= Len(line) /\ SkipWs(line, to) > Len(line)
        THEN Trim(SubSeq(line, from, to - 1))
        ELSE <<>>))

\* line.match(/^\s*title:\s*(.+)\s*$/i), m[1].trim()
MatchTitleKey(line) ==
    Let(SkipWs(line, 1), LAMBDA k :
        IF StartsAtCI(line, TitleKey, k)
        THEN CaptureToEnd(line, k + Len(TitleKey))
        ELSE <<>>)

\* number of # characters of line from index i on
RECURSIVE CountHash(_, _)
CountHash(line, i) ==
    IF i <= Len(line) /\ line[i] = "#" THEN 1 + CountHash(line, i + 1) ELSE 0

MaxHeadingLevel == 6

\* line.match(/^\s*#{1,6}\s+(.+)\s*$/), m[1].trim()
MatchHeading(line) ==
    Let(SkipWs(line, 1), LAMBDA k :
    Let(CountHash(line, k), LAMBDA n :
        IF n >= 1 /\ n <= MaxHeadingLevel /\ k + n <= Len(line) /\ IsWs(line[k + n])
        THEN CaptureToEnd(line, k + n)
        ELSE <<>>))

\* the title a line gives, lines 460-470: <<>> if it gives none
TitleOfLine(line) ==
    Let(MatchTitleKey(line), LAMBDA byKey :
        IF byKey # <<>> THEN byKey ELSE MatchHeading(line))

\* index of the first line that is not blank, Len(lines)+1 if none
RECURSIVE FirstNonBlank(_, _)
FirstNonBlank(lines, i) ==
    IF i <= Len(lines) /\ Trim(lines[i]) = <<>> THEN FirstNonBlank(lines, i + 1) ELSE i

\* lines.slice(0, i).concat(lines.slice(i + 1)), for the 1-based index i
RemoveAt(lines, i) == SubSeq(lines, 1, i - 1) \o SubSeq(lines, i + 1, Len(lines))

extractTitleFromMarkdown(text) ==
    IF text = <<>> THEN [title |-> None, body |-> <<>>]
    ELSE
        Let(SplitLF(ReplaceCRLF(text)), LAMBDA lines :
        Let(FirstNonBlank(lines, 1), LAMBDA i :
        Let(IF i <= Len(lines) THEN TitleOfLine(lines[i]) ELSE <<>>, LAMBDA found :
            IF found # <<>>
            THEN [title |-> Some(found), body |-> JoinLF(RemoveAt(lines, i))]
            ELSE [title |-> None, body |-> JoinLF(lines)])))

\* ------------------------------------------------------------------------
\* Date: the calendar arithmetic of the Date constructor
\* ------------------------------------------------------------------------
SecondsPerMinute == 60
SecondsPerHour == 3600
SecondsPerDay == 86400

\* the offsets of local time from UTC the environment may have
TimeZones == {0, 3600}

\* days from 1970-01-01 to the civil date (y, m, d), m in 1..12
DaysFromCivil(y, m, d) ==
    LET yy  == IF m <= 2 THEN y - 1 ELSE y
        era == yy \div 400
        yoe == yy - era * 400
        mp  == IF m > 2 THEN m - 3 ELSE m + 9
        doy == (153 * mp + 2) \div 5 + d - 1
        doe == yoe * 365 + yoe \div 4 - yoe \div 100 + doy
    IN  era * 146097 + doe - 719468

\* MakeDay: a month index outside 0..11 carries into the year, a day
\* outside the month carries into the neighbouring months
MakeDay(year, monthIndex, day) ==
    DaysFromCivil(year + monthIndex \div 12, (monthIndex % 12) + 1, 1) + day - 1

\* new Date(year, monthIndex, day, hours, minutes, seconds).getTime(): the
\* fields are local time, and a year 0..99 means 1900 + year
DateFromFields(year, monthIndex, day, hours, minutes, seconds) ==
    LET y == IF year >= 0 /\ year <= 99 THEN 1900 + year ELSE year
    IN  MakeDay(y, monthIndex, day) * SecondsPerDay + hours * SecondsPerHour
          + minutes * SecondsPerMinute + seconds - tz

\* date.setHours(0, 0, 0, 0): local midnight of the local day of t
SetHoursZero(t) == ((t + tz) \div SecondsPerDay) * SecondsPerDay - tz

DaysInMonth(y, m) == DaysFromCivil(y + m \div 12, (m % 12) + 1, 1) - DaysFromCivil(y, m, 1)

DigitVal(c) ==
    CASE c = "0" -> 0 [] c = "1" -> 1 [] c = "2" -> 2 [] c = "3" -> 3 [] c = "4" -> 4
      [] c = "5" -> 5 [] c = "6" -> 6 [] c = "7" -> 7 [] c = "8" -> 8 [] c = "9" -> 9

\* parseInt(s, 10) of a string of digits
RECURSIVE ParseInt(_)
ParseInt(s) ==
    IF s = <<>> THEN 0 ELSE ParseInt(SubSeq(s, 1, Len(s) - 1)) * 10 + DigitVal(s[Len(s)])

DigitChar(d) ==
    CASE d = 0 -> "0" [] d = 1 -> "1" [] d = 2 -> "2" [] d = 3 -> "3" [] d = 4 -> "4"
      [] d = 5 -> "5" [] d = 6 -> "6" [] d = 7 -> "7" [] d = 8 -> "8" [] d = 9 -> "9"

\* String(n) of a number n >= 0, as a template literal prints it
RECURSIVE NumToStr(_)
NumToStr(n) ==
    IF n < 10 THEN <<DigitChar(n)>> ELSE NumToStr(n \div 10) \o <<DigitChar(n % 10)>>

\* whether s[i..j] is a run of digits
AllDigits(s, i, j) == i >= 1 /\ j <= Len(s) /\ \A k \in i..j : IsDigit(s[k])

\* number of digits of s from index i on
RECURSIVE CountDigits(_, _)
CountDigits(s, i) ==
    IF i <= Len(s) /\ IsDigit(s[i]) THEN 1 + CountDigits(s, i + 1) ELSE 0

\* ------------------------------------------------------------------------
\* Parser.parseDate
\* ------------------------------------------------------------------------
IsLetter(c) ==
    c \in {"a", "b", "c", "d", "e", "f", "g", "h", "i", "j", "k", "l", "m", "n", "o", "p",
           "q", "r", "s", "t", "u", "v", "w", "x", "y", "z", "ä", "ö", "ü", "ß", "A", "B",
           "C", "D", "E", "F", "G", "H", "I", "J", "K", "L", "M", "N", "O", "P", "Q", "R",
           "S", "T", "U", "V", "W", "X", "Y", "Z", "Ä", "Ö", "Ü"}

\* number of letters of s from index i on
RECURSIVE CountLetters(_, _)
CountLetters(s, i) ==
    IF i <= Len(s) /\ IsLetter(s[i]) THEN 1 + CountLetters(s, i + 1) ELSE 0

\* the keys of MONTH_NAME_TO_INDEX
MonthNames ==
    {<<"j", "a", "n", "u", "a", "r">>, <<"j", "a", "n">>, <<"f", "e", "b", "r", "u",
     "a", "r">>, <<"f", "e", "b">>, <<"m", "ä", "r", "z">>, <<"m", "ä", "r">>, <<"m",
     "a", "r">>, <<"a", "p", "r", "i", "l">>, <<"a", "p", "r">>, <<"m", "a", "i">>,
     <<"m", "a", "y">>, <<"j", "u", "n", "i">>, <<"j", "u", "n">>, <<"j", "u", "l",
     "i">>, <<"j", "u", "l">>, <<"a", "u", "g", "u", "s", "t">>, <<"a", "u", "g">>,
     <<"s", "e", "p", "t", "e", "m", "b", "e", "r">>, <<"s", "e", "p">>, <<"o", "k",
     "t", "o", "b", "e", "r">>, <<"o", "k", "t">>, <<"o", "c", "t">>, <<"n", "o", "v",
     "e", "m", "b", "e", "r">>, <<"n", "o", "v">>, <<"d", "e", "z", "e", "m", "b", "e",
     "r">>, <<"d", "e", "z">>, <<"d", "e", "c">>}

\* MONTH_NAME_TO_INDEX[name]
MONTH_NAME_TO_INDEX(name) ==
    CASE name = <<"j", "a", "n", "u", "a", "r">> -> 0
      [] name = <<"j", "a", "n">> -> 0
      [] name = <<"f", "e", "b", "r", "u", "a", "r">> -> 1
      [] name = <<"f", "e", "b">> -> 1
      [] name = <<"m", "ä", "r", "z">> -> 2
      [] name = <<"m", "ä", "r">> -> 2
      [] name = <<"m", "a", "r">> -> 2
      [] name = <<"a", "p", "r", "i", "l">> -> 3
      [] name = <<"a", "p", "r">> -> 3
      [] name = <<"m", "a", "i">> -> 4
      [] name = <<"m", "a", "y">> -> 4
      [] name = <<"j", "u", "n", "i">> -> 5
      [] name = <<"j", "u", "n">> -> 5
      [] name = <<"j", "u", "l", "i">> -> 6
      [] name = <<"j", "u", "l">> -> 6
      [] name = <<"a", "u", "g", "u", "s", "t">> -> 7
      [] name = <<"a", "u", "g">> -> 7
      [] name = <<"s", "e", "p", "t", "e", "m", "b", "e", "r">> -> 8
      [] name = <<"s", "e", "p">> -> 8
      [] name = <<"o", "k", "t", "o", "b", "e", "r">> -> 9
      [] name = <<"o", "k", "t">> -> 9
      [] name = <<"o", "c", "t">> -> 9
      [] name = <<"n", "o", "v", "e", "m", "b", "e", "r">> -> 10
      [] name = <<"n", "o", "v">> -> 10
      [] name = <<"d", "e", "z", "e", "m", "b", "e", "r">> -> 11
      [] name = <<"d", "e", "z">> -> 11
      [] name = <<"d", "e", "c">> -> 11

YearDigits == 4

\* dateString.match(/^(Q([1-4]))\s*(\d{4})$/i): <<>> or <<[quarter, year]>>, the
\* captured strings
QuarterFirst(s) ==
    IF /\ Len(s) >= 2
       /\ ToLower(s[1]) = "q"
       /\ s[2] \in {"1", "2", "3", "4"}
       /\ LET y == SkipWs(s, 3)
          IN  y + YearDigits - 1 = Len(s) /\ AllDigits(s, y, Len(s))
    THEN Some([quarter |-> <<s[2]>>, year |-> SubSeq(s, Len(s) - YearDigits + 1, Len(s))])
    ELSE None

\* dateString.match(/^(\d{4})\s*(Q([1-4]))$/i), rearranged as the code rearranges it
QuarterLast(s) ==
    IF /\ Len(s) >= YearDigits + 2
       /\ AllDigits(s, 1, YearDigits)
       /\ SkipWs(s, YearDigits + 1) = Len(s) - 1
       /\ ToLower(s[Len(s) - 1]) = "q"
       /\ s[Len(s)] \in {"1", "2", "3", "4"}
    THEN Some([quarter |-> <<s[Len(s)]>>, year |-> SubSeq(s, 1, YearDigits)])
    ELSE None

\* dateString.match(/^([a-zA-Z...]+)\s*(\d{4})$/i): <<>> or <<[name, year]>>
MonthFirst(s) ==
    LET n == CountLetters(s, 1)
        y == SkipWs(s, n + 1)
    IN  IF n >= 1 /\ y + YearDigits - 1 = Len(s) /\ AllDigits(s, y, Len(s))
        THEN Some([name |-> SubSeq(s, 1, n), year |-> SubSeq(s, y, Len(s))])
        ELSE None

\* dateString.match(/^(\d{4})\s*([a-zA-Z...]+)$/i), rearranged as the code rearranges it
MonthLast(s) ==
    LET l == IF Len(s) >= YearDigits /\ AllDigits(s, 1, YearDigits)
             THEN SkipWs(s, YearDigits + 1) ELSE Len(s) + 1
    IN  IF l <= Len(s) /\ l + CountLetters(s, l) - 1 = Len(s)
        THEN Some([name |-> SubSeq(s, l, Len(s)), year |-> SubSeq(s, 1, YearDigits)])
        ELSE None

\* two digits of s at index i as a number, -1 if they are not two digits
TwoDigits(s, i) ==
    IF AllDigits(s, i, i + 1) THEN ParseInt(SubSeq(s, i, i + 1)) ELSE -1

\* the date part of the ECMAScript date-time string format at the start of
\* s: YYYY-MM-DD with a month 01..12 and a day of that month.  <<>> or
\* <<days since the epoch>>
IsoDay(s) ==
    IF Len(s) >= 10 /\ AllDigits(s, 1, YearDigits) /\ s[5] = "-" /\ s[8] = "-"
    THEN Let(ParseInt(SubSeq(s, 1, YearDigits)), LAMBDA y :
         Let(TwoDigits(s, 6), LAMBDA m :
         Let(TwoDigits(s, 9), LAMBDA d :
             IF m >= 1 /\ m <= 12 /\ d >= 1 /\ d <= DaysInMonth(y, m)
             THEN Some(DaysFromCivil(y, m, d))
             ELSE None)))
    ELSE None

\* the time part HH:mm or HH:mm:ss that ends s at index i: <<>> or <<seconds of the day>>
IsoTime(s, i) ==
    IF Len(s) \in {i + 4, i + 7} /\ s[i + 2] = ":" /\ (Len(s) = i + 7 => s[i + 5] = ":")
    THEN Let(TwoDigits(s, i), LAMBDA h :
         Let(TwoDigits(s, i + 3), LAMBDA m :
         Let(IF Len(s) = i + 7 THEN TwoDigits(s, i + 6) ELSE 0, LAMBDA sec :
             IF h >= 0 /\ h <= 23 /\ m >= 0 /\ m <= 59 /\ sec >= 0 /\ sec <= 59
             THEN Some(h * SecondsPerHour + m * SecondsPerMinute + sec)
             ELSE None)))
    ELSE None

\* new Date(dateString).getTime(), <<>> for NaN.  YYYY is the first instant
\* of that year in UTC, YYYY-MM-DD is midnight UTC, YYYY-MM-DDTHH:mm[:ss]
\* is local time, and so is the same with a space for the T
\* (parser.test.ts, 'should parse ISO date with time').  What becomes of
\* any other string is the engine's choice: legacy.
NewDate(s) ==
    IF Len(s) = YearDigits /\ AllDigits(s, 1, YearDigits)
    THEN Some(DaysFromCivil(ParseInt(s), 1, 1) * SecondsPerDay)
    ELSE Let(IsoDay(s), LAMBDA day :
             IF day = None THEN legacy
             ELSE IF Len(s) = 10 THEN Some(day[1] * SecondsPerDay)
             ELSE IF s[11] \in {"T", SP}
             THEN Let(IsoTime(s, 12), LAMBDA time :
                      IF time = None THEN legacy
                      ELSE Some(day[1] * SecondsPerDay + time[1] - tz))
             ELSE legacy)

\* dateString.includes(':')
HasColon(s) == \E i \in 1..Len(s) : s[i] = ":"

\* dateString.match(/^(\d{1,2})\.(\d{1,2})\.(\d{4})/): <<>> or <<[day, month, year]>>,
\* the captured strings
GermanDateMatch(s) ==
    Let(CountDigits(s, 1), LAMBDA n1 :
    Let(CountDigits(s, n1 + 2), LAMBDA n2 :
        IF /\ n1 \in {1, 2}
           /\ n1 + 1 <= Len(s) /\ s[n1 + 1] = "."
           /\ n2 \in {1, 2}
           /\ n1 + n2 + 2 <= Len(s) /\ s[n1 + n2 + 2] = "."
           /\ CountDigits(s, n1 + n2 + 3) >= YearDigits
        THEN Some([day   |-> SubSeq(s, 1, n1),
                   month |-> SubSeq(s, n1 + 2, n1 + n2 + 1),
                   year  |-> SubSeq(s, n1 + n2 + 3, n1 + n2 + 2 + YearDigits)])
        ELSE None))

\* the length of the match of \d{1,2} that a : and a digit follow, at index i: 0 if none
HoursAt(s, i) ==
    IF AllDigits(s, i, i + 1) /\ i + 3 <= Len(s) /\ s[i + 2] = ":" /\ IsDigit(s[i + 3]) THEN 2
    ELSE IF AllDigits(s, i, i) /\ i + 2 <= Len(s) /\ s[i + 1] = ":" /\ IsDigit(s[i + 2]) THEN 1
    ELSE 0

\* the length of the match of \d{1,2} at index i, where a digit stands
UpToTwoDigits(s, i) == IF AllDigits(s, i, i + 1) THEN 2 ELSE 1

\* /(\d{1,2}):(\d{1,2})(:(\d{1,2}))?/ tried at index i only: <<>> or <<timeParts>>
TimeAt(s, i) ==
    Let(HoursAt(s, i), LAMBDA h :
        IF h = 0 THEN None
        ELSE Let(UpToTwoDigits(s, i + h + 1), LAMBDA mn :
             Let(i + h + 1 + mn, LAMBDA c :
                 Some(<<ParseInt(SubSeq(s, i, i + h - 1)),
                        ParseInt(SubSeq(s, i + h + 1, c - 1)),
                        IF c + 1 <= Len(s) /\ s[c] = ":" /\ IsDigit(s[c + 1])
                        THEN ParseInt(SubSeq(s, c + 1, c + UpToTwoDigits(s, c + 1)))
                        ELSE 0>>))))

\* dateString.match(/(\d{1,2}):(\d{1,2})(:(\d{1,2}))?/): the leftmost match
RECURSIVE TimeMatch(_, _)
TimeMatch(s, i) ==
    IF i > Len(s) THEN None
    ELSE IF HoursAt(s, i) > 0 THEN TimeAt(s, i)
    ELSE TimeMatch(s, i + 1)

Failure == [date |-> None, displayString |-> None, hasTime |-> FALSE]

Return(v) == [type |-> "return", value |-> v]
Throw == [type |-> "throw", value |-> Failure]

\* the quarter branch of parseDate, lines 495-520: <<>> when neither
\* expression matches, else <<what parseDate returns>>
QuarterBranch(s) ==
    Let(IF QuarterFirst(s) # None THEN QuarterFirst(s) ELSE QuarterLast(s), LAMBDA m :
        IF m = None THEN None
        ELSE Let(ParseInt(m[1].quarter), LAMBDA quarter :
             Let(ParseInt(m[1].year), LAMBDA year :
                 IF quarter < 1 \/ quarter > 4 THEN Some(Failure)
                 ELSE Some([date |-> Some(DateFromFields(year, (quarter - 1) * 3, 1, 0, 0, 0)),
                            displayString |->
                                Some(<<"Q">> \o NumToStr(quarter) \o <<SP>> \o NumToStr(year)),
                            hasTime |-> FALSE]))))

\* the month name branch of parseDate, lines 523-554: <<>> when it falls
\* through to the next format, else <<what parseDate returns>>
MonthNameBranch(s) ==
    Let(IF MonthFirst(s) # None THEN MonthFirst(s) ELSE MonthLast(s), LAMBDA m :
        IF m = None THEN None
        ELSE Let(LowerStr(m[1].name), LAMBDA monthName :
             Let(ParseInt(m[1].year), LAMBDA year :
                 IF monthName \in MonthNames
                 THEN Some([date |-> Some(DateFromFields(year, MONTH_NAME_TO_INDEX(monthName),
                                                         1, 0, 0, 0)),
                            displayString |->
                                Some(<<ToUpper(m[1].name[1])>> \o Tail(m[1].name)
                                       \o <<SP>> \o NumToStr(year)),
                            hasTime |-> FALSE])
                 ELSE None)))

\* the try block of parseDate, lines 557-567
TryBlock(s) ==
    Let(NewDate(s), LAMBDA parsedDateObject :
        IF parsedDateObject = None THEN Throw
        ELSE Return([date |-> parsedDateObject, displayString |-> None,
                     hasTime |-> HasColon(s)]))

\* the catch block of parseDate, lines 568-597
CatchBlock(s) ==
    Let(GermanDateMatch(s), LAMBDA germanDateMatch :
        IF germanDateMatch = None THEN Return(Failure)
        ELSE Let(TimeMatch(s, 1), LAMBDA timeMatch :
             Let(IF timeMatch = None THEN <<0, 0, 0>> ELSE timeMatch[1], LAMBDA timeParts :
                 Return([date |-> Some(DateFromFields(ParseInt(germanDateMatch[1].year),
                                                      ParseInt(germanDateMatch[1].month) - 1,
                                                      ParseInt(germanDateMatch[1].day),
                                                      timeParts[1], timeParts[2], timeParts[3])),
                         displayString |-> None,
                         hasTime |-> timeMatch # None]))))

\* a variant of parseDate that tries the Date constructor before the quarter
\* and month name formats
GenericFirst(s) ==
    Let(TryBlock(s), LAMBDA try :
        IF try.type = "return" THEN try
        ELSE Let(QuarterBranch(s), LAMBDA quarter :
                 IF quarter # None THEN Return(quarter[1])
                 ELSE Let(MonthNameBranch(s), LAMBDA month :
                          IF month # None THEN Return(month[1]) ELSE CatchBlock(s))))

\* how a call of parseDate completes
parseDateCompletion(s) ==
    Let(QuarterBranch(s), LAMBDA quarter :
        IF quarter # None THEN Return(quarter[1])
        ELSE Let(MonthNameBranch(s), LAMBDA month :
                 IF month # None THEN Return(month[1])
                 ELSE Let(TryBlock(s), LAMBDA try :
                          IF try.type = "throw" THEN CatchBlock(s) ELSE try)))

\* the value the callers of parseDate get
parseDate(s) == parseDateCompletion(s).value

\* ------------------------------------------------------------------------
\* Parser.parseEvents
\* ------------------------------------------------------------------------
Dashes == <<"-", "-", "-">>

\* the length of the match of /(\r\n---\r\n|\n---\n|\r---\r)/ at 1-based index i, 0 if none
SeparatorAt(s, i) ==
    IF StartsAt(s, <<CR, LF>> \o Dashes \o <<CR, LF>>, i) THEN 7
    ELSE IF StartsAt(s, <<LF>> \o Dashes \o <<LF>>, i) THEN 5
    ELSE IF StartsAt(s, <<CR>> \o Dashes \o <<CR>>, i) THEN 5
    ELSE 0

\* eventBlocks without the eventStr.trim() tests of lines 611 and 622: a
\* variant that keeps the blank segments too
RECURSIVE BlocksKeepingBlank(_, _, _)
BlocksKeepingBlank(bodyText, offset, lastIndex) ==
    Let(FirstIndex(lastIndex + 1, Len(bodyText), LAMBDA k : SeparatorAt(bodyText, k) > 0),
        LAMBDA i :
        IF i > Len(bodyText)
        THEN <<[text |-> Substring(bodyText, lastIndex, Len(bodyText)),
                start |-> offset + lastIndex, end |-> offset + Len(bodyText)]>>
        ELSE <<[text |-> Substring(bodyText, lastIndex, i - 1),
                start |-> offset + lastIndex, end |-> offset + i - 1]>>
             \o BlocksKeepingBlank(bodyText, offset, i - 1 + SeparatorAt(bodyText, i)))

\* the eventBlocks of parseEvents, lines 604-628, from lastIndex (0-based)
\* on: separatorRegex.exec finds the next match at the 1-based index i, or
\* none, and then the rest of the text is the last block
RECURSIVE BlocksFrom(_, _, _)
BlocksFrom(bodyText, offset, lastIndex) ==
    Let(FirstIndex(lastIndex + 1, Len(bodyText), LAMBDA k : SeparatorAt(bodyText, k) > 0),
        LAMBDA i :
        IF i > Len(bodyText)
        THEN LET lastEventStr == Substring(bodyText, lastIndex, Len(bodyText))
             IN  IF Trim(lastEventStr) # <<>>
                 THEN <<[text |-> lastEventStr, start |-> offset + lastIndex,
                         end |-> offset + Len(bodyText)]>>
                 ELSE <<>>
        ELSE LET eventStr == Substring(bodyText, lastIndex, i - 1)
             IN  (IF Trim(eventStr) # <<>>
                  THEN <<[text |-> eventStr, start |-> offset + lastIndex,
                          end |-> offset + i - 1]>>
                  ELSE <<>>)
                 \o BlocksFrom(bodyText, offset, i - 1 + SeparatorAt(bodyText, i)))

eventBlocks(bodyText, offset) == BlocksFrom(bodyText, offset, 0)

DateKey == <<"d", "a", "t", "e", ":">>
EndDateKey == <<"e", "n", "d", "_", "d", "a", "t", "e", ":">>
ClassKey == <<"c", "l", "a", "s", "s", ":">>
GroupKey == <<"g", "r", "o", "u", "p", ":">>
LaneKey == <<"l", "a", "n", "e", ":">>

\* line.match(/^<key>\s*(.+)/i): <<>> when there is no match, else
\* <<m[1].trim()>>.  The group starts after the whitespace run and runs to
\* the next line terminator; when only whitespace follows the key the
\* group can hold nothing but whitespace taken back from \s*.
KeyValue(line, key) ==
    IF ~StartsAtCI(line, key, 1) THEN None
    ELSE Let(SkipWs(line, Len(key) + 1), LAMBDA from :
             IF from <= Len(line)
             THEN Some(Trim(SubSeq(line, from, SkipDot(line, from) - 1)))
             ELSE IF \E j \in (Len(key) + 1)..Len(line) : IsDot(line[j]) THEN Some(<<>>)
             ELSE None)

\* \w
IsWord(c) == IsDigit(c) \/ c = "_" \/ (IsLetter(c) /\ c \notin {"ä", "ö", "ü", "ß", "Ä", "Ö", "Ü"})

RECURSIVE CountWord(_, _)
CountWord(s, i) == IF i <= Len(s) /\ IsWord(s[i]) THEN 1 + CountWord(s, i + 1) ELSE 0

\* line.match(/^class:\s*(\w+)/i): <<>> or <<m[1]>>
ClassValue(line) ==
    IF ~StartsAtCI(line, ClassKey, 1) THEN None
    ELSE Let(SkipWs(line, Len(ClassKey) + 1), LAMBDA from :
         Let(CountWord(line, from), LAMBDA n :
             IF n >= 1 THEN Some(SubSeq(line, from, from + n - 1)) ELSE None))

\* line.match(/^(group|lane):\s*(.+)/i): <<>> or <<m[2].trim()>>
GroupValue(line) ==
    KeyValue(line, IF StartsAtCI(line, GroupKey, 1) THEN GroupKey ELSE LaneKey)

VALID_EVENT_CLASSES ==
    {<<"c", "r", "i", "t", "i", "c", "a", "l">>,
     <<"w", "a", "r", "n", "i", "n", "g">>,
     <<"s", "u", "c", "c", "e", "s", "s">>,
     <<"m", "e", "e", "t", "i", "n", "g">>,
     <<"w", "o", "r", "k">>}

DefaultGroup == <<"D", "e", "f", "a", "u", "l", "t">>

\* the character U+0060, which a TLA+ string cannot hold
BACKTICK == "backtick"

NoDateMsg ==
    <<"*", "*", "F", "e", "h", "l", "e", "r", ":", "*", "*", " ", "K", "e", "i", "n",
     " ", "D", "a", "t", "u", "m", " ", "g", "e", "f", "u", "n", "d", "e", "n", ".">>

InvalidDateMsg(dateString) ==
    <<"*", "*", "F", "e", "h", "l", "e", "r", ":", "*", "*", " ", "U", "n", "g", "ü",
      "l", "t", "i", "g", "e", "s", " ", "D", "a", "t", "u", "m", ":", " ", BACKTICK>>
      \o dateString \o <<BACKTICK>>

\* the sentinel: new Date(0).getTime()
Epoch == 0

\* the state of the loop over the lines of a block before its first line
BlockStart ==
    [dateStringFromInput |-> None, parsedDateObject |-> None, parsedEndDateObject |-> None,
     explicitTimeInInput |-> FALSE, displayDateString |-> None, eventClass |-> None,
     eventGroup |-> DefaultGroup, contentLines |-> <<>>]

\* the assignments of lines 651-658 for a date: line with the value dateString
DateLine(st, dateString) ==
    Let(parseDate(dateString), LAMBDA p :
        [st EXCEPT !.dateStringFromInput = Some(dateString),
                   !.parsedDateObject = Some(p),
                   !.explicitTimeInInput = IF p.date # None THEN p.hasTime ELSE @,
                   !.displayDateString = IF p.date # None THEN p.displayString ELSE @])

\* a variant of EndDateLine that treats the value as line 653 treats a date: value
EndDateAsDate(st, endDateString) == DateLine(st, endDateString)

\* the assignment of line 662 for an end_date: line with the value endDateString
EndDateLine(st, endDateString) ==
    [st EXCEPT !.parsedEndDateObject = Some(parseDate(endDateString))]

\* one turn of the loop over the lines of a block, lines 644-674
ScanLine(st, line) ==
    Let(KeyValue(line, DateKey), LAMBDA dateMatch :
        IF dateMatch # None
        THEN IF dateMatch[1] = <<>>
             THEN [st EXCEPT !.dateStringFromInput = None]
             ELSE DateLine(st, dateMatch[1])
        ELSE Let(KeyValue(line, EndDateKey), LAMBDA endDateMatch :
        IF endDateMatch # None
        THEN IF endDateMatch[1] = <<>> THEN st
             ELSE EndDateLine(st, endDateMatch[1])
        ELSE Let(ClassValue(line), LAMBDA classMatch :
        IF classMatch # None
        THEN Let(LowerStr(classMatch[1]), LAMBDA foundClass :
                 IF foundClass \in VALID_EVENT_CLASSES
                 THEN [st EXCEPT !.eventClass = Some(<<"i", "s", "-">> \o foundClass)]
                 ELSE st)
        ELSE Let(GroupValue(line), LAMBDA groupMatch :
        IF groupMatch # None
        THEN [st EXCEPT !.eventGroup = IF groupMatch[1] = <<>> THEN DefaultGroup
                                       ELSE groupMatch[1]]
        ELSE [st EXCEPT !.contentLines = Append(@, line)]))))

RECURSIVE ScanLines(_, _, _)
ScanLines(st, lines, i) ==
    IF i > Len(lines) THEN st
    ELSE Let(ScanLine(st, lines[i]), LAMBDA next : ScanLines(next, lines, i + 1))

\* the eventData of lines 676-696 for a block and the state the loop over its lines ends in
eventData(block, st) ==
    LET content == Trim(JoinLF(st.contentLines))
        dated   == st.parsedDateObject # None /\ st.parsedDateObject[1].date # None
    IN  [date |-> IF dated THEN st.parsedDateObject[1].date[1] ELSE Epoch,
         endDate |-> IF st.parsedEndDateObject # None
                     THEN st.parsedEndDateObject[1].date ELSE None,
         content |-> IF dated THEN content
                     ELSE (IF st.dateStringFromInput # None
                           THEN InvalidDateMsg(st.dateStringFromInput[1])
                           ELSE NoDateMsg) \o <<LF, LF>> \o content,
         explicitTimeProvided |-> st.explicitTimeInInput,
         displayDateString |-> st.displayDateString,
         eventClass |-> st.eventClass,
         group |-> st.eventGroup,
         startPos |-> block.start,
         endPos |-> block.end]

\* the event of one block, lines 631-697
eventOfBlock(block) ==
    Let(ScanLines(BlockStart, SplitLF(Trim(block.text)), 1), LAMBDA st : eventData(block, st))

\* a variant of eventsOf with eventGroup declared outside the forEach: a
\* block without a lane line gets the lane of the block before it
RECURSIVE eventsSharingGroup(_)
eventsSharingGroup(found) ==
    IF found = <<>> THEN <<>>
    ELSE Let(eventsSharingGroup(SubSeq(found, 1, Len(found) - 1)), LAMBDA before :
         Let(found[Len(found)], LAMBDA block :
             Append(before,
                    eventData(block,
                        ScanLines([BlockStart EXCEPT !.eventGroup =
                                       IF before = <<>> THEN DefaultGroup
                                       ELSE before[Len(before)].group],
                                  SplitLF(Trim(block.text)), 1)))))

\* the events of the blocks found, lines 630-698
eventsOf(found) == [i \in 1..Len(found) |-> eventOfBlock(found[i])]

parseEvents(bodyText, offset) == eventsOf(eventBlocks(bodyText, offset))

\* ------------------------------------------------------------------------
\* Renderer.renderTimeline
\* ------------------------------------------------------------------------
\* 0-based index of x in seq, -1 if absent (Array.prototype.indexOf)
RECURSIVE ArrayIndexFrom(_, _, _)
ArrayIndexFrom(seq, x, i) ==
    IF i > Len(seq) THEN -1
    ELSE IF seq[i] = x THEN i - 1
    ELSE ArrayIndexFrom(seq, x, i + 1)

ArrayIndexOf(seq, x) == ArrayIndexFrom(seq, x, 1)

\* the comparator of the sort of line 66
CompareDate(a, b) == a.date - b.date

\* the comparator of the sort of lines 95-100
CompareDateGroup(groups, a, b) ==
    IF a.date = b.date
    THEN ArrayIndexOf(groups, a.group) - ArrayIndexOf(groups, b.group)
    ELSE a.date - b.date

\* Array.prototype.sort is stable: e goes behind every element that does
\* not compare greater than it
RECURSIVE InsertByDate(_, _)
InsertByDate(sorted, e) ==
    IF sorted = <<>> THEN <<e>>
    ELSE IF CompareDate(sorted[Len(sorted)], e) <= 0 THEN Append(sorted, e)
    ELSE Append(InsertByDate(SubSeq(sorted, 1, Len(sorted) - 1), e), sorted[Len(sorted)])

\* a variant without the sort of line 66: the events stay in parse order
Unsorted(events) == events

RECURSIVE SortByDate(_)
SortByDate(events) ==
    IF events = <<>> THEN <<>>
    ELSE InsertByDate(SortByDate(SubSeq(events, 1, Len(events) - 1)), events[Len(events)])

RECURSIVE InsertByDateGroup(_, _, _)
InsertByDateGroup(groups, sorted, e) ==
    IF sorted = <<>> THEN <<e>>
    ELSE IF CompareDateGroup(groups, sorted[Len(sorted)], e) <= 0 THEN Append(sorted, e)
    ELSE Append(InsertByDateGroup(groups, SubSeq(sorted, 1, Len(sorted) - 1), e),
                sorted[Len(sorted)])

RECURSIVE SortByDateGroup(_, _)
SortByDateGroup(groups, events) ==
    IF events = <<>> THEN <<>>
    ELSE InsertByDateGroup(groups, SortByDateGroup(groups, SubSeq(events, 1, Len(events) - 1)),
                           events[Len(events)])

\* a variant without the Set of line 69: events.map(event => event.group)
GroupsOfAll(events, seen) == seen \o [i \in 1..Len(events) |-> events[i].group]

\* [...new Set(events.map(event => event.group))]: each group once, in first-seen order
RECURSIVE UniqueGroups(_, _)
UniqueGroups(events, seen) ==
    IF events = <<>> THEN seen
    ELSE UniqueGroups(Tail(events),
                      IF ArrayIndexOf(seen, events[1].group) >= 0 THEN seen
                      ELSE Append(seen, events[1].group))

\* events.filter(e => e.date.getTime() !== new Date(0).getTime())
RECURSIVE ValidEvents(_)
ValidEvents(events) ==
    IF events = <<>> THEN <<>>
    ELSE (IF events[1].date # Epoch THEN <<events[1]>> ELSE <<>>) \o ValidEvents(Tail(events))

\* a variant of the loop of addTodayMarker with eventDate > today for line 547
RECURSIVE FirstAfter(_, _, _)
FirstAfter(validEvents, todayMidnight, i) ==
    IF i >= Len(validEvents) THEN -1
    ELSE IF SetHoursZero(validEvents[i + 1].date) > todayMidnight THEN i
    ELSE FirstAfter(validEvents, todayMidnight, i + 1)

\* the loop of addTodayMarker, lines 541-551, from 0-based index i on: the
\* index of the first event whose day is not before todayMidnight, -1 if none
RECURSIVE FirstNotBefore(_, _, _)
FirstNotBefore(validEvents, todayMidnight, i) ==
    IF i >= Len(validEvents) THEN -1
    ELSE IF SetHoursZero(validEvents[i + 1].date) >= todayMidnight THEN i
    ELSE FirstNotBefore(validEvents, todayMidnight, i + 1)

\* addTodayMarker's insertIndex for the clock reading now, <<>> when it returns early
TodayInsertIndex(events, now) ==
    Let(ValidEvents(events), LAMBDA validEvents :
        IF Len(validEvents) = 0 THEN None
        ELSE Let(FirstNotBefore(validEvents, SetHoursZero(now), 0), LAMBDA found :
                 IF found = -1 THEN Some(Len(validEvents)) ELSE Some(found)))

\* the readings of the clock (new Date()) at the time of a render
Clock == {1736928000, 1736983800}

\* a timeline item (the element renderEvent returns) and the today marker
ItemNode(e) == [node |-> "timeline-item", event |-> Some(e)]
MarkerNode == [node |-> "current-date-marker", event |-> None]

\* the container's nodes after the events are rendered, one item each
ItemsOf(events) == [i \in 1..Len(events) |-> ItemNode(events[i])]

\* the end of addTodayMarker, lines 557-577: the marker goes before
\* timelineItems[insertIndex], or to the end when there is no such item
WithTodayMarker(items, index) ==
    IF index = None THEN items
    ELSE IF index[1] < Len(items)
         THEN SubSeq(items, 1, index[1]) \o <<MarkerNode>>
                  \o SubSeq(items, index[1] + 1, Len(items))
         ELSE Append(items, MarkerNode)

\* if (x): a string is true unless it is empty
Truthy(string) == string # <<>>

\* renderEvent, line 389: event.endDate && event.date < event.endDate
HasDuration(e) == e.endDate # None /\ e.date < e.endDate[1]

\* the items for which renderEvent sets the timer of renderDurationBar
DurationItems(events) == {i \in 1..Len(events) : HasDuration(events[i])}

\* markLastItemsPerLane: for each lane group the last item that carries it
LastItemsPerLane(events) ==
    {i \in 1..Len(events) :
        /\ Truthy(events[i].group)
        /\ \A j \in (i + 1)..Len(events) : events[j].group # events[i].group}

\* the layout: every child of the container takes one row, and a row is as
\* high as the window makes it
RowHeights == {10, 25, 40}

\* element.offsetTop of the child at a position of the container
OffsetTop(position) == (position - 1) * rowHeight

\* the position of item i among the children of the container
ChildPosition(nodes, i) ==
    CHOOSE p \in 1..Len(nodes) :
        /\ nodes[p].node = "timeline-item"
        /\ Cardinality({q \in 1..p : nodes[q].node = "timeline-item"}) = i

\* the offsetTop of every item of the container, in the order of
\* container.querySelectorAll(".timeline-item")
ItemTops(nodes) ==
    [i \in 1..Cardinality({q \in 1..Len(nodes) : nodes[q].node = "timeline-item"}) |->
        OffsetTop(ChildPosition(nodes, i))]

\* the height a duration bar must exceed to be drawn, and the top offset of
\* the connection line of a lane item
MinBarHeight == 20
ConnectionLineTop == 29

\* a variant of endIndex that stops at the first later event that starts
\* after the end date
endIndexAfter(events, i) ==
    FirstIndex(i + 1, Len(events), LAMBDA j : events[j].date > events[i].endDate[1])

\* the loop of renderDurationBar, lines 428-434: the first later event that
\* does not start before the end date, Len(events) + 1 if there is none
endIndex(events, i) ==
    FirstIndex(i + 1, Len(events), LAMBDA j : events[j].date >= events[i].endDate[1])

\* renderDurationBar, lines 424-460, for the event at index i of events and
\* the items with the offsets tops: the height of the bar that is appended
\* to item i, <<>> when none is
durationBar(events, i, tops) ==
    IF i > Len(tops) THEN None
    ELSE Let(endIndex(events, i), LAMBDA j :
         Let(IF j <= Len(events) /\ j <= Len(tops) THEN tops[j]
             ELSE tops[Len(tops)] + rowHeight, LAMBDA endPositionTop :
             IF endPositionTop > tops[i] /\ endPositionTop - tops[i] > MinBarHeight
             THEN Some(endPositionTop - tops[i])
             ELSE None))

\* a variant of NextInLane that takes the item rendered next, whatever its
\* lane
NextItem(events, i) == i + 1

\* the next item of the lane of item i, Len(events) + 1 if it is the last
NextInLane(events, i) ==
    FirstIndex(i + 1, Len(events), LAMBDA j : events[j].group = events[i].group)

\* calculateConnectionLines for lane items with the offsets tops: the
\* --connection-line-height of every item afterwards
connectionLines(events, tops, heights) ==
    [i \in 1..Len(heights) |->
        IF Truthy(events[i].group) /\ NextInLane(events, i) <= Len(events)
              /\ tops[NextInLane(events, i)] - tops[i] - ConnectionLineTop > 0
        THEN Some(tops[NextInLane(events, i)] - tops[i] - ConnectionLineTop)
        ELSE heights[i]]

\* Renderer.renderTimeline(markdownInput, container, showSwimlanes) for the
\* value text of markdownInput. The container is cleared: the items of
\* the render before are detached, and a renderDurationBar timer that is
\* still set for one of them appends its bar to an element outside the
\* document
Render(text, swimlanes, now) ==
    \E parsedTop \in {extractTitleFromMarkdown(text)} :
    \E offset \in {IndexOf(text, parsedTop.body)} :
    \E found \in {eventBlocks(parsedTop.body, offset)} :
       /\ title' = parsedTop.title
       /\ body' = parsedTop.body
       /\ bodyOffset' = offset
       /\ IF Trim(parsedTop.body) = <<>> \/ Len(found) = 0
          THEN /\ blocks' = <<>>
               /\ parsed' = <<>>
               /\ allEvents' = <<>>
               /\ uniqueGroups' = <<>>
               /\ isSwimlaneMode' = FALSE
               /\ insertIndex' = None
               /\ children' = <<>>
               /\ durationTimers' = {}
               /\ bars' = <<>>
               /\ lineHeight' = <<>>
               /\ laneLast' = {}
               /\ UNCHANGED <<today, connectionTimers>>
          ELSE \E events \in {eventsOf(found)} :
               \E sorted \in {SortByDate(events)} :
               \E groups \in {UniqueGroups(sorted, <<>>)} :
               \E lanes \in {swimlanes /\ Len(groups) > 1} :
               \E ordered \in {IF lanes THEN SortByDateGroup(groups, sorted) ELSE sorted} :
               \E index \in {TodayInsertIndex(ordered, now)} :
                  /\ blocks' = found
                  /\ parsed' = events
                  /\ allEvents' = ordered
                  /\ uniqueGroups' = groups
                  /\ isSwimlaneMode' = lanes
                  /\ today' = SetHoursZero(now)
                  /\ insertIndex' = index
                  /\ children' = WithTodayMarker(ItemsOf(ordered), index)
                  /\ durationTimers' = DurationItems(ordered)
                  /\ connectionTimers' = IF lanes THEN connectionTimers + 1
                                          ELSE connectionTimers
                  /\ bars' = [i \in 1..Len(ordered) |-> <<>>]
                  /\ lineHeight' = [i \in 1..Len(ordered) |-> None]
                  /\ laneLast' = IF lanes THEN LastItemsPerLane(ordered) ELSE {}

\* ------------------------------------------------------------------------
\* Storage: the undo and redo histories
\* ------------------------------------------------------------------------
\* HISTORY.MAX_SIZE and HISTORY.SAVE_SIZE
MAX_SIZE == 50
SAVE_SIZE == 20

\* array.slice(-n)
LastN(array, n) ==
    IF Len(array) <= n THEN array ELSE SubSeq(array, Len(array) - n + 1, Len(array))

\* a variant of saveToHistory without the shift of lines 78-80
saveWithoutShift(currentValue) ==
    /\ IF \/ isUndoRedoAction
          \/ Len(undoHistory) > 0 /\ undoHistory[Len(undoHistory)] = currentValue
       THEN UNCHANGED <<undoHistory, redoHistory, storedHistory>>
       ELSE /\ undoHistory' = Append(undoHistory, currentValue)
            /\ redoHistory' = <<>>
            /\ storedHistory' = Some(LastN(Append(undoHistory, currentValue), SAVE_SIZE))
    /\ UNCHANGED <<isUndoRedoAction, undone>>

\* Storage.saveToHistory(currentValue)
saveToHistory(currentValue) ==
    /\ IF \/ isUndoRedoAction
          \/ Len(undoHistory) > 0 /\ undoHistory[Len(undoHistory)] = currentValue
       THEN UNCHANGED <<undoHistory, redoHistory, storedHistory>>
       ELSE \E pushed \in {Append(undoHistory, currentValue)} :
            \E kept \in {IF Len(pushed) > MAX_SIZE THEN Tail(pushed) ELSE pushed} :
               /\ undoHistory' = kept
               /\ redoHistory' = <<>>
               /\ storedHistory' = Some(LastN(kept, SAVE_SIZE))
    /\ UNCHANGED <<isUndoRedoAction, undone>>

\* ------------------------------------------------------------------------
\* Presentation: the messages to the presentation window
\* ------------------------------------------------------------------------
\* the message Presentation.sendUpdate posts for a markdown: the filters
\* are not given by any caller and default to the empty array
InitMessage(markdown) ==
    [type |-> "init", markdown |-> markdown, theme |-> currentTheme, filters |-> {},
     searchQuery |-> searchInput]

\* if (this.presentation.isOpen()) this.presentation.sendUpdate(markdown)
sendUpdate(markdown) ==
    channel' = IF isOpen THEN Append(channel, InitMessage(markdown)) ELSE channel

\* ------------------------------------------------------------------------
\* TimelineApp: the handlers of the main window
\* ------------------------------------------------------------------------
\* the render of the text the editor holds: the first one, and the one the
\* debounce timer of handleMarkdownInput starts, with the update of the
\* presentation window after it
RenderTimeline(now) ==
    /\ pc = "edit"
    /\ pc' = IF debounceTimers > 1 THEN "edit" ELSE "rendered"
    /\ debounceTimers' = IF debounceTimers > 0 THEN debounceTimers - 1 ELSE 0
    /\ Render(raw, showSwimlanes, now)
    /\ sendUpdate(raw)
    /\ UNCHANGED <<raw, envVars, callVars, autosaveTimers, autosaved, themeVars, editVars, searchVars, histVars,
                   isOpen, presMarkdown, presEvents, presFilters, presQuery,
                   presTimers, presBars, presTheme>>

\* a variant of clearTimeout that leaves the timer set
keepTimeout(timers) == timers

\* clearTimeout(id) for the id of the timer set last, with timers of them
\* set: timers of one delay fire in the order they were set in, so if one
\* is set the last one is
clearTimeout(timers) == IF timers > 0 THEN timers - 1 ELSE 0

\* handleMarkdownInput, lines 831-855: the debounce timer and the autosave
\* timer are cleared and set again
setTimers ==
    /\ debounceTimers' = clearTimeout(debounceTimers) + 1
    /\ autosaveTimers' = clearTimeout(autosaveTimers) + 1
    /\ UNCHANGED autosaved

\* the text with the characters from start to end replaced
Replaced(text, start, end, replacement) ==
    Substring(text, 0, start) \o replacement \o Substring(text, end, Len(text))

\* the user replaces block k of the editor's text: handleMarkdownInput
\* saves the new value to the history and starts the debounce timer
EditBlock(k, replacement) ==
    /\ pc = "rendered"
    /\ editedBlock = 0
    /\ k \in 1..Len(blocks)
    /\ \E value \in {Replaced(raw, blocks[k].start, blocks[k].end, replacement)} :
          /\ raw' = value
          /\ saveToHistory(value)
    /\ prevParsed' = parsed
    /\ editedBlock' = k
    /\ pc' = "edit"
    /\ setTimers
    /\ UNCHANGED <<envVars, renderVars, callVars, themeVars, searchVars, presVars>>

\* the user changes the editor's text to value: handleMarkdownInput saves
\* it to the history and starts the debounce timer
MarkdownInput(value) ==
    /\ raw # value
    /\ raw' = value
    /\ saveToHistory(value)
    /\ pc' = "edit"
    /\ setTimers
    /\ UNCHANGED <<envVars, renderVars, callVars, themeVars, editVars, searchVars, presVars>>

\* Storage.undo as a function of the editor's value and the two histories
undo(state) ==
    IF Len(state.undoHistory) < 2 THEN state
    ELSE Let(state.undoHistory[Len(state.undoHistory)], LAMBDA current :
         Let(state.undoHistory[Len(state.undoHistory) - 1], LAMBDA previous :
             [value |-> IF Truthy(previous) THEN previous ELSE state.value,
              undoHistory |-> SubSeq(state.undoHistory, 1, Len(state.undoHistory) - 1),
              redoHistory |-> IF Truthy(current) THEN Append(state.redoHistory, current)
                              ELSE state.redoHistory]))

\* Storage.redo as a function of the editor's value and the two histories
redo(state) ==
    IF Len(state.redoHistory) = 0 THEN state
    ELSE Let(state.redoHistory[Len(state.redoHistory)], LAMBDA next :
             [value |-> IF Truthy(next) THEN next ELSE state.value,
              undoHistory |-> IF Truthy(next) THEN Append(state.undoHistory, next)
                              ELSE state.undoHistory,
              redoHistory |-> SubSeq(state.redoHistory, 1, Len(state.redoHistory) - 1)])

\* the editor's value and the two histories as they are
HistoryState == [value |-> raw, undoHistory |-> undoHistory, redoHistory |-> redoHistory]

\* the undo operations a behaviour may hold
MaxUndos == 2

\* Ctrl+Z: Storage.undo(markdownInput, () => this.parseAndRenderTimeline())
Undo(now) ==
    /\ undone < MaxUndos
    /\ Len(undoHistory) >= 2
    /\ undone' = undone + 1
    /\ isUndoRedoAction' = TRUE
    /\ \E current \in {undoHistory[Len(undoHistory)]} :
       \E previous \in {undoHistory[Len(undoHistory) - 1]} :
       \E value \in {IF Truthy(previous) THEN previous ELSE raw} :
          /\ undoHistory' = SubSeq(undoHistory, 1, Len(undoHistory) - 1)
          /\ redoHistory' = IF Truthy(current) THEN Append(redoHistory, current)
                            ELSE redoHistory
          /\ raw' = value
          /\ Render(value, showSwimlanes, now)
    /\ UNCHANGED <<pc, envVars, callVars, saveVars, themeVars, editVars, searchVars, presVars, storedHistory>>

\* Ctrl+Y: Storage.redo(markdownInput, () => this.parseAndRenderTimeline())
Redo(now) ==
    /\ Len(redoHistory) > 0
    /\ isUndoRedoAction' = TRUE
    /\ \E next \in {redoHistory[Len(redoHistory)]} :
          /\ redoHistory' = SubSeq(redoHistory, 1, Len(redoHistory) - 1)
          /\ undoHistory' = IF Truthy(next) THEN Append(undoHistory, next) ELSE undoHistory
          /\ raw' = IF Truthy(next) THEN next ELSE raw
          /\ Render(IF Truthy(next) THEN next ELSE raw, showSwimlanes, now)
    /\ UNCHANGED <<pc, envVars, callVars, saveVars, themeVars, editVars, searchVars, presVars, storedHistory,
                   undone>>

\* the timer of undo and redo: isUndoRedoAction is reset
UndoRedoTimer ==
    /\ isUndoRedoAction
    /\ isUndoRedoAction' = FALSE
    /\ UNCHANGED <<raw, pc, envVars, renderVars, callVars, saveVars, themeVars, editVars, searchVars, presVars,
                   undoHistory, redoHistory, storedHistory, undone>>

\* handleVisualize with the presentation window closed: Presentation.toggle
\* opens the window and its channel, and the main window renders again
OpenWindow(now) ==
    /\ pc = "rendered"
    /\ ~isOpen
    /\ isOpen' = TRUE
    /\ Render(raw, showSwimlanes, now)
    /\ UNCHANGED <<raw, pc, envVars, callVars, saveVars, themeVars, editVars, searchVars, histVars,
                   channel, presMarkdown, presEvents, presFilters, presQuery,
                   presTimers, presBars, presTheme>>

\* the messages that may wait for the presentation window
MaxInFlight == 2

\* the main window posts only while few messages wait for the presentation window
CanPost == isOpen /\ Len(channel) < MaxInFlight

\* the main window's channel.onmessage for request_data, which the
\* presentation window posts when it loads, and the timer of openWindow
OnRequestData ==
    /\ pc = "rendered"
    /\ CanPost
    /\ sendUpdate(raw)
    /\ UNCHANGED <<raw, pc, envVars, renderVars, callVars, saveVars, themeVars, editVars, searchVars, histVars,
                   isOpen, presMarkdown, presEvents, presFilters, presQuery,
                   presTimers, presBars, presTheme>>

\* the change handler of the filter checkbox with the value filterValue
ToggleFilter(filterValue) ==
    /\ pc = "rendered"
    /\ CanPost
    /\ activeFilters' = IF filterValue \in activeFilters
                        THEN activeFilters \ {filterValue}
                        ELSE activeFilters \cup {filterValue}
    /\ sendUpdate(raw)
    /\ UNCHANGED <<raw, pc, envVars, renderVars, callVars, saveVars, themeVars, editVars, histVars,
                   searchInput, searchTimeoutId,
                   isOpen, presMarkdown, presEvents, presFilters, presQuery,
                   presTimers, presBars, presTheme>>

\* the input handler of the search field: the user has typed query, the timer is set
SearchInput(query) ==
    /\ pc = "rendered"
    /\ searchInput # query
    /\ searchInput' = query
    /\ searchTimeoutId' = TRUE
    /\ UNCHANGED <<raw, pc, envVars, renderVars, callVars, saveVars, themeVars, editVars, histVars, presVars,
                   activeFilters>>

\* the callback of the timer of the search field
SearchTimer ==
    /\ searchTimeoutId
    /\ CanPost
    /\ searchTimeoutId' = FALSE
    /\ sendUpdate(raw)
    /\ UNCHANGED <<raw, pc, envVars, renderVars, callVars, saveVars, themeVars, editVars, histVars,
                   activeFilters, searchInput,
                   isOpen, presMarkdown, presEvents, presFilters, presQuery,
                   presTimers, presBars, presTheme>>

\* the click handler of the button that clears the search field
SearchClear ==
    /\ pc = "rendered"
    /\ CanPost
    /\ searchInput # <<>>
    /\ searchInput' = <<>>
    /\ sendUpdate(raw)
    /\ UNCHANGED <<raw, pc, envVars, renderVars, callVars, saveVars, themeVars, editVars, histVars,
                   activeFilters, searchTimeoutId,
                   isOpen, presMarkdown, presEvents, presFilters, presQuery,
                   presTimers, presBars, presTheme>>

\* ------------------------------------------------------------------------
\* The presentation window
\* ------------------------------------------------------------------------
\* the events renderTimeline(markdown) of the presentation window renders, in their order
presentationEvents(markdown) ==
    IF Trim(markdown) = <<>> THEN <<>>
    ELSE Let(extractTitleFromMarkdown(markdown), LAMBDA parsedTop :
             IF Trim(parsedTop.body) = <<>> THEN <<>>
             ELSE SortByDate(parseEvents(parsedTop.body, IndexOf(markdown, parsedTop.body))))

\* the addDurationBars timers that may be set in the presentation window
MaxPending == 2

\* the offsetTop of the items of the presentation window
PresentationTops(count) == [i \in 1..count |-> OffsetTop(i)]

\* addDurationBars(events) of the presentation window, whose items carry
\* the bars present: the bars of every item afterwards
addDurationBars(events, present) ==
    [k \in 1..Len(present) |->
        IF k <= Len(events) /\ HasDuration(events[k])
              /\ durationBar(events, k, PresentationTops(Len(present))) # None
        THEN Append(present[k], durationBar(events, k, PresentationTops(Len(present)))[1])
        ELSE present[k]]

\* channel.onmessage of the presentation window for the oldest message;
\* renderTimeline sets the timer of addDurationBars when there are events
PresentationOnMessage ==
    /\ channel # <<>>
    /\ Len(presTimers) < MaxPending
    /\ channel' = Tail(channel)
    /\ \E data \in {Head(channel)} :
          IF data.type = "filters"
          THEN /\ presFilters' = data.filters
               /\ presQuery' = data.searchQuery
               /\ UNCHANGED <<presMarkdown, presEvents, presTimers, presBars, presTheme>>
          ELSE \E events \in {presentationEvents(data.markdown)} :
               /\ presTheme' = data.theme
               /\ presFilters' = data.filters
               /\ presQuery' = IF data.searchQuery # <<>> THEN data.searchQuery ELSE presQuery
               /\ presMarkdown' = Some(data.markdown)
               /\ presEvents' = events
               /\ presBars' = [k \in 1..Len(events) |-> <<>>]
               /\ presTimers' = IF Len(events) = 0 THEN presTimers
                                 ELSE Append(presTimers, events)
    /\ UNCHANGED <<raw, pc, envVars, renderVars, callVars, editVars, searchVars, histVars, isOpen,
                   saveVars, themeVars>>

\* the timer callback of the presentation window's renderTimeline, lines
\* 190-194, for the timer set first
PresentationTimer ==
    /\ presTimers # <<>>
    /\ presTimers' = Tail(presTimers)
    /\ presBars' = addDurationBars(Head(presTimers), presBars)
    /\ UNCHANGED <<raw, pc, envVars, renderVars, callVars, editVars, searchVars, histVars,
                   saveVars, themeVars,
                   isOpen, channel, presMarkdown, presEvents, presFilters, presQuery, presTheme>>

\* the timer callback of renderEvent, lines 390-392, for the item whose
\* timer was set first
DurationBarTimer ==
    /\ durationTimers # {}
    /\ \E i \in {CHOOSE k \in durationTimers : \A j \in durationTimers : k <= j} :
       \E bar \in {durationBar(allEvents, i, ItemTops(children))} :
          /\ durationTimers' = durationTimers \ {i}
          /\ bars' = IF bar = None THEN bars ELSE [bars EXCEPT ![i] = Append(@, bar[1])]
    /\ UNCHANGED <<raw, pc, envVars, callVars, editVars, searchVars, histVars, presVars,
                   saveVars, themeVars,
                   title, body, bodyOffset, blocks, parsed, allEvents, uniqueGroups,
                   isSwimlaneMode, today, insertIndex, children,
                   connectionTimers, lineHeight, laneLast>>

\* the timer callback of renderTimeline, lines 116-118: the items of a
\* linear render carry no lane group and are left alone
ConnectionLinesTimer ==
    /\ connectionTimers > 0
    /\ connectionTimers' = connectionTimers - 1
    /\ lineHeight' = IF isSwimlaneMode
                      THEN connectionLines(allEvents, ItemTops(children), lineHeight)
                      ELSE lineHeight
    /\ UNCHANGED <<raw, pc, envVars, callVars, editVars, searchVars, histVars, presVars,
                   saveVars, themeVars,
                   title, body, bodyOffset, blocks, parsed, allEvents, uniqueGroups,
                   isSwimlaneMode, today, insertIndex, children,
                   durationTimers, bars, laneLast>>

\* the window is resized: the layout gives the rows another height
Reflow(height) ==
    /\ rowHeight # height
    /\ rowHeight' = height
    /\ UNCHANGED <<raw, pc, showSwimlanes, tz, legacy, renderVars, callVars, editVars,
                   searchVars, histVars, presVars, saveVars, themeVars>>

\* the files a behaviour may load
MaxLoads == 2

\* reader.onload of handleFileLoad for a file that holds text: the text is
\* saved, rendered at once and sent to the presentation window
LoadFile(text, now) ==
    /\ pc = "rendered"
    /\ Len(undoHistory) < MaxLoads
    /\ isOpen => CanPost
    /\ raw' = text
    /\ saveToHistory(text)
    /\ autosaved' = Some(text)
    /\ Render(text, showSwimlanes, now)
    /\ sendUpdate(text)
    /\ UNCHANGED <<pc, envVars, callVars, editVars, searchVars, themeVars,
                   debounceTimers, autosaveTimers,
                   isOpen, presMarkdown, presEvents, presFilters, presQuery,
                   presTimers, presBars, presTheme>>

\* the timer callback of the autosave timer, lines 853-855
AutosaveTimer ==
    /\ autosaveTimers > 0
    /\ autosaveTimers' = autosaveTimers - 1
    /\ autosaved' = Some(raw)
    /\ UNCHANGED <<raw, pc, envVars, renderVars, callVars, editVars, searchVars, histVars,
                   presVars, themeVars, debounceTimers>>

\* Storage.getSystemThemePreference: the colour scheme of the system
getSystemThemePreference == IF systemDark THEN "dark" ELSE "light"

\* Storage.loadTheme: the theme in localStorage, or the one of the system
loadTheme == IF storedTheme # None THEN storedTheme[1] ELSE getSystemThemePreference

\* Storage.hasThemePreference
hasThemePreference == storedTheme # None

\* TimelineApp.applyTheme(theme): the theme is set on the document and
\* saved with Storage.saveTheme
applyTheme(theme) ==
    /\ currentTheme' = theme
    /\ storedTheme' = Some(theme)

\* presentation.sendUpdate(undefined, theme) if the window is open: the
\* markdown is the editor's value
sendThemeTo(theme) ==
    channel' = IF isOpen THEN Append(channel, [InitMessage(raw) EXCEPT !.theme = theme])
               ELSE channel

\* TimelineApp.loadTheme, which init calls before the first render
LoadTheme ==
    /\ pc = "start"
    /\ pc' = "edit"
    /\ applyTheme(loadTheme)
    /\ UNCHANGED <<raw, envVars, renderVars, callVars, editVars, searchVars, histVars, presVars,
                   saveVars, systemDark, toggled>>

\* the click on the theme button: TimelineApp.toggleTheme
ToggleTheme ==
    /\ pc # "start"
    /\ isOpen => CanPost
    /\ toggled' = TRUE
    /\ \E newTheme \in {IF currentTheme = "light" THEN "dark" ELSE "light"} :
          /\ applyTheme(newTheme)
          /\ sendThemeTo(newTheme)
    /\ UNCHANGED <<raw, pc, envVars, renderVars, callVars, editVars, searchVars, histVars,
                   saveVars, systemDark,
                   isOpen, presMarkdown, presEvents, presFilters, presQuery,
                   presTimers, presBars, presTheme>>

\* the colour scheme of the system changes: the change listener that
\* setupSystemThemeListener has added
SystemThemeChange ==
    /\ pc # "start"
    /\ isOpen => CanPost
    /\ systemDark' = ~systemDark
    /\ IF ~hasThemePreference
       THEN \E newTheme \in {IF ~systemDark THEN "dark" ELSE "light"} :
               /\ applyTheme(newTheme)
               /\ sendThemeTo(newTheme)
       ELSE UNCHANGED <<currentTheme, storedTheme, channel>>
    /\ UNCHANGED <<raw, pc, envVars, renderVars, callVars, editVars, searchVars, histVars,
                   saveVars, toggled,
                   isOpen, presMarkdown, presEvents, presFilters, presQuery,
                   presTimers, presBars, presTheme>>

\* a direct call of Parser.parseDate
ParseDateCall ==
    /\ pc = "call"
    /\ pc' = "returned"
    /\ result' = parseDateCompletion(token)
    /\ UNCHANGED <<raw, envVars, renderVars, token, editVars, searchVars, presVars, histVars,
                   saveVars, themeVars>>

\* ------------------------------------------------------------------------
\* The texts the editor may hold, and the tokens parseDate may be given
\* ------------------------------------------------------------------------
\* every concatenation of at most n of the given pieces
RECURSIVE Concatenations(_, _)
Concatenations(pieces, n) ==
    IF n = 0 THEN {<<>>}
    ELSE LET shorter == Concatenations(pieces, n - 1)
         IN  shorter \cup {d \o p : d \in shorter, p \in pieces}

\* every sequence of 1 to n elements of S
SeqsUpTo(S, n) == UNION {[1..k -> S] : k \in 1..n}

MaxPieces == 5

\* what a text is put together from: line terminators, a blank, a letter,
\* the dashes of a separator, a heading and a date line
TextPieces ==
    {<<LF>>, <<CR>>, <<SP>>, <<"a">>, Dashes, <<"#", SP, "a">>,
     <<"d", "a", "t", "e", ":", "2", "0", "2", "5">>}

Texts == Concatenations(TextPieces, MaxPieces)

MaxLines == 3

\* the lines a single block is put together from
BlockLines ==
    {<<"d", "a", "t", "e", ":", SP, "2", "0", "2", "5", "-", "0", "1", "-", "1", "5">>,
     <<"d", "a", "t", "e", ":", SP, "1", "9", "7", "0", "-", "0", "1", "-", "0", "1">>,
     <<"d", "a", "t", "e", ":", SP, "f", "o", "o">>,
     <<"d", "a", "t", "e", ":", SP>>,
     <<"d", "a", "t", "e", ":">>,
     <<"D", "A", "T", "E", ":", SP, "3", "1", ".", "1", "2", ".", "2", "0", "2", "5">>,
     <<"e", "n", "d", "_", "d", "a", "t", "e", ":", SP, "2", "0", "2", "5", "-", "0", "2", "-", "0", "1">>,
     <<"x">>}

BlockDocs == {JoinLF(ls) : ls \in SeqsUpTo(BlockLines, MaxLines)}

\* the lines a block with metadata is put together from
MetaLines ==
    {<<"d", "a", "t", "e", ":", SP, "2", "0", "2", "5", "-", "0", "1", "-", "1", "5">>,
     <<"d", "a", "t", "e", ":", SP, "f", "o", "o">>,
     <<"e", "n", "d", "_", "d", "a", "t", "e", ":", SP, "2", "0", "2", "5", "-", "0", "2", "-", "0", "1">>,
     <<"e", "n", "d", "_", "d", "a", "t", "e", ":", SP, "f", "o", "o">>,
     <<"e", "n", "d", "_", "d", "a", "t", "e", ":">>,
     <<"c", "l", "a", "s", "s", ":", SP, "c", "r", "i", "t", "i", "c", "a", "l">>,
     <<"C", "L", "A", "S", "S", ":", SP, "W", "o", "r", "k">>,
     <<"c", "l", "a", "s", "s", ":", SP, "f", "o", "o">>,
     <<"c", "l", "a", "s", "s", ":", SP, "-">>,
     <<"l", "a", "n", "e", ":", SP, "A">>,
     <<"g", "r", "o", "u", "p", ":", SP>>,
     <<"x">>}

MetaDocs == {JoinLF(ls) : ls \in SeqsUpTo(MetaLines, MaxLines)}

\* what new Date makes of a string that is not in the date-time string
\* format: an invalid date, or some date of the engine's choosing
Engines == {None, Some(978307200)}

MaxBlocks == 3

\* the date line of a block: none, the day before the render, early on its
\* day, the day after it
LayoutDateLines ==
    {<<>>,
     <<<<"d", "a", "t", "e", ":", SP, "2", "0", "2", "5", "-", "0", "1", "-", "1", "4">>>>,
     <<<<"d", "a", "t", "e", ":", SP, "2", "0", "2", "5", "-", "0", "1", "-", "1", "5", "T", "0", "1", ":", "0", "0">>>>,
     <<<<"d", "a", "t", "e", ":", SP, "1", "6", ".", "0", "1", ".", "2", "0", "2", "5">>>>}

\* the lane line of a block: none (the default lane) or a lane of its own
LayoutLaneLines == {<<>>, <<<<"l", "a", "n", "e", ":", SP, "A">>>>}

\* the blocks a timeline document is put together from
LayoutBlocks == {JoinLF(d \o l \o <<<<"x">>>>) : d \in LayoutDateLines, l \in LayoutLaneLines}

RECURSIVE JoinBlocks(_)
JoinBlocks(bs) ==
    IF Len(bs) = 1 THEN bs[1]
    ELSE bs[1] \o <<LF>> \o Dashes \o <<LF>> \o JoinBlocks(Tail(bs))

LayoutDocs == {JoinBlocks(bs) : bs \in SeqsUpTo(LayoutBlocks, MaxBlocks)}

MaxTokenPieces == 3

TokenPieces ==
    {<<"Q", "1">>, <<SP>>, <<"2", "0", "2", "5">>, <<"m", "a", "i">>, <<"x">>,
     <<"0", "1", ".", "0", "2", ".">>, <<"2", "0", "2", "5", "-", "0", "1", "-", "1", "5">>,
     <<"T", "1", "0", ":", "3", "0">>}

Tokens == Concatenations(TokenPieces, MaxTokenPieces)

\* ------------------------------------------------------------------------
\* Specifications
\* ------------------------------------------------------------------------
\* the values of the filter checkboxes
FilterValues == {"critical", "warning", "success", "meeting", "work", "info", "none"}

\* no input yet, the presentation window closed, the histories empty
AppIdle ==
    /\ prevParsed = <<>>
    /\ editedBlock = 0
    /\ activeFilters = FilterValues
    /\ searchInput = <<>>
    /\ searchTimeoutId = FALSE
    /\ isOpen = FALSE
    /\ channel = <<>>
    /\ presMarkdown = None
    /\ presEvents = <<>>
    /\ presFilters = FilterValues
    /\ presQuery = <<>>
    /\ undoHistory = <<>>
    /\ redoHistory = <<>>
    /\ isUndoRedoAction = FALSE
    /\ storedHistory = None
    /\ undone = 0
    /\ rowHeight = 40
    /\ durationTimers = {}
    /\ connectionTimers = 0
    /\ bars = <<>>
    /\ lineHeight = <<>>
    /\ laneLast = {}
    /\ presTimers = <<>>
    /\ presBars = <<>>
    /\ presTheme = "light"
    /\ debounceTimers = 0
    /\ autosaveTimers = 0
    /\ autosaved = None

\* TimelineApp.loadTheme has run: the theme is applied, and applyTheme has
\* stored it
ThemeApplied ==
    /\ currentTheme = "light"
    /\ storedTheme = Some("light")
    /\ systemDark = FALSE
    /\ toggled = FALSE

\* before any render: the editor holds one of texts
InitWith(texts, zones, engines, prefs) ==
    /\ raw \in texts
    /\ showSwimlanes \in prefs
    /\ tz \in zones
    /\ legacy \in engines
    /\ pc = "edit"
    /\ title = None
    /\ body = <<>>
    /\ bodyOffset = 0
    /\ blocks = <<>>
    /\ parsed = <<>>
    /\ allEvents = <<>>
    /\ uniqueGroups = <<>>
    /\ isSwimlaneMode = FALSE
    /\ today = 0
    /\ insertIndex = None
    /\ children = <<>>
    /\ token = <<>>
    /\ result = Return(Failure)
    /\ AppIdle
    /\ ThemeApplied

Init == InitWith(Texts, {0}, {None}, {FALSE})

Next == \E now \in Clock : RenderTimeline(now)

\* any text of the editor, rendered once
Spec == Init /\ [][Next]_vars

InitBlock == InitWith(BlockDocs, TimeZones, Engines, {FALSE})

\* a document of one block, rendered once
SpecBlock == InitBlock /\ [][Next]_vars

InitMeta == InitWith(MetaDocs, {0}, Engines, {FALSE})

\* a document of one block with metadata lines, rendered once
SpecMeta == InitMeta /\ [][Next]_vars

\* what the user replaces a block by: a block without a date, one with a
\* date that does not parse, one dated in lane B, a line of dashes
EditTexts ==
    {<<"y">>,
     <<"d", "a", "t", "e", ":", SP, "f", "o", "o", LF, "y">>,
     <<"d", "a", "t", "e", ":", SP, "1", "3", ".", "0", "1", ".", "2", "0", "2", "5", LF,
       "l", "a", "n", "e", ":", SP, "B", LF, "c", "l", "a", "s", "s", ":", SP, "w", "o", "r", "k", LF, "y">>,
     Dashes}

InitLayout == InitWith(LayoutDocs, TimeZones, {None}, BOOLEAN)

\* a document of dated blocks in lanes, rendered once
SpecLayout == InitLayout /\ [][Next]_vars

InitPresentation == InitWith(LayoutDocs, {0}, {None}, BOOLEAN)

NextPresentation ==
    \/ Next
    \/ \E now \in Clock : OpenWindow(now)
    \/ OnRequestData
    \/ PresentationOnMessage
    \/ PresentationTimer

\* a document rendered in the main window and, by updates, in the presentation window
SpecPresentation == InitPresentation /\ [][NextPresentation]_vars

\* a document with an event of a category and one without
FilterDocs ==
    {JoinBlocks(<<<<"d", "a", "t", "e", ":", SP, "2", "0", "2", "5", "-", "0", "1", "-", "1", "4", LF,
                   "c", "l", "a", "s", "s", ":", SP, "c", "r", "i", "t", "i", "c", "a", "l", LF, "x">>,
                 <<"d", "a", "t", "e", ":", SP, "1", "6", ".", "0", "1", ".", "2", "0", "2", "5", LF, "a">>>>)}

\* the checkboxes the user toggles and the queries the user types
ToggledFilters == {"critical", "none"}
Queries == {<<"x">>, <<SP, "a">>}

InitFilters == InitWith(FilterDocs, {0}, {None}, {FALSE})

NextFilters ==
    \/ NextPresentation
    \/ \E filterValue \in ToggledFilters : ToggleFilter(filterValue)
    \/ \E query \in Queries : SearchInput(query)
    \/ SearchTimer
    \/ SearchClear

\* the filters and the search of the main window with the presentation window open
SpecFilters == InitFilters /\ [][NextFilters]_vars

\* the values of the editor in the history: the empty text and a text
HistoryTexts == {<<>>, <<"a">>}

InitHistory == InitWith({<<"a">>}, {0}, {None}, {FALSE})

NextHistory ==
    \/ Next
    \/ \E value \in HistoryTexts : MarkdownInput(value)
    \/ \E now \in Clock : Undo(now)
    \/ \E now \in Clock : Redo(now)
    \/ UndoRedoTimer

\* inputs, undo and redo
SpecHistory == InitHistory /\ [][NextHistory]_vars

\* the blocks of the documents that are edited: one of yesterday, one of
\* tomorrow in lane A, one without a date
EditBlocks ==
    {<<"d", "a", "t", "e", ":", SP, "2", "0", "2", "5", "-", "0", "1", "-", "1", "4", LF, "x">>,
     <<"d", "a", "t", "e", ":", SP, "1", "6", ".", "0", "1", ".", "2", "0", "2", "5", LF,
       "l", "a", "n", "e", ":", SP, "A", LF, "x">>,
     <<"x">>}

EditDocs == {JoinBlocks(bs) : bs \in SeqsUpTo(EditBlocks, MaxBlocks)}

InitEdit == InitWith(EditDocs, {0}, {None}, {FALSE})

NextEdit == Next \/ \E k \in 1..MaxBlocks : \E replacement \in EditTexts : EditBlock(k, replacement)

\* a document rendered, one block replaced, rendered again
SpecEdit == InitEdit /\ [][NextEdit]_vars

\* the blocks of the documents whose connectors are looked at: an event
\* that lasts two days, one of the day between, one in lane A that starts
\* when the first ends and ends before it starts, and one in lane A
\* without a date that has an end date
ConnectorBlocks ==
    {<<"d", "a", "t", "e", ":", SP, "2", "0", "2", "5", "-", "0", "1", "-", "1", "4", LF,
       "e", "n", "d", "_", "d", "a", "t", "e", ":", SP, "1", "6", ".", "0", "1", ".", "2", "0", "2", "5", LF, "x">>,
     <<"d", "a", "t", "e", ":", SP, "2", "0", "2", "5", "-", "0", "1", "-", "1", "5", LF, "x">>,
     <<"d", "a", "t", "e", ":", SP, "1", "6", ".", "0", "1", ".", "2", "0", "2", "5", LF,
       "e", "n", "d", "_", "d", "a", "t", "e", ":", SP, "2", "0", "2", "5", "-", "0", "1", "-", "1", "4", LF,
       "l", "a", "n", "e", ":", SP, "A", LF, "x">>,
     <<"e", "n", "d", "_", "d", "a", "t", "e", ":", SP, "1", "6", ".", "0", "1", ".", "2", "0", "2", "5", LF,
       "l", "a", "n", "e", ":", SP, "A", LF, "x">>}

ConnectorDocs == {JoinBlocks(bs) : bs \in SeqsUpTo(ConnectorBlocks, MaxBlocks)}

InitConnectors == InitWith(ConnectorDocs, {0}, {None}, BOOLEAN)

NextConnectors ==
    \/ Next
    \/ \E now \in Clock : OpenWindow(now)
    \/ DurationBarTimer
    \/ ConnectionLinesTimer
    \/ \E height \in RowHeights : Reflow(height)

\* a document rendered in the main window, rendered again, and the timers
\* of the connectors
SpecConnectors == InitConnectors /\ [][NextConnectors]_vars

\* two documents: in the first the first event lasts two days, in the
\* second no event has an end date
BarDocs ==
    {JoinBlocks(<<<<"d", "a", "t", "e", ":", SP, "2", "0", "2", "5", "-", "0", "1", "-", "1", "4", LF,
                   "e", "n", "d", "_", "d", "a", "t", "e", ":", SP, "1", "6", ".", "0", "1", ".", "2", "0", "2", "5", LF, "x">>,
                 <<"d", "a", "t", "e", ":", SP, "2", "0", "2", "5", "-", "0", "1", "-", "1", "5", LF, "x">>,
                 <<"d", "a", "t", "e", ":", SP, "1", "6", ".", "0", "1", ".", "2", "0", "2", "5", LF,
                   "l", "a", "n", "e", ":", SP, "A", LF, "x">>>>),
     JoinBlocks(<<<<"d", "a", "t", "e", ":", SP, "2", "0", "2", "5", "-", "0", "1", "-", "1", "4", LF, "y">>,
                 <<"d", "a", "t", "e", ":", SP, "1", "6", ".", "0", "1", ".", "2", "0", "2", "5", LF,
                   "l", "a", "n", "e", ":", SP, "A", LF, "y">>>>)}

InitBars == InitWith(BarDocs, {0}, {None}, {FALSE})

NextBars ==
    \/ NextPresentation
    \/ \E text \in BarDocs : \E now \in Clock : LoadFile(text, now)
    \/ \E height \in RowHeights : Reflow(height)

\* documents loaded into the main window with the presentation window
\* open, and the timers of the presentation window
SpecBars == InitBars /\ [][NextBars]_vars

\* the texts the user gives the editor: the empty text and two one-line texts
InputTexts == {<<>>, <<"a">>, <<"b">>}

\* the states the undo history may hold when an input arrives
MaxInputs == 3

InitInput == InitWith({<<"a">>}, {0}, {None}, {FALSE})

\* the application has rendered the text it started with: init calls
\* parseAndRenderTimeline before it returns to the event loop
Started == pc = "edit" => debounceTimers > 0

NextInput ==
    \/ Next
    \/ \E value \in InputTexts :
          Started /\ Len(undoHistory) < MaxInputs /\ MarkdownInput(value)
    \/ \E now \in Clock : Started /\ Undo(now)
    \/ \E now \in Clock : Started /\ Redo(now)
    \/ UndoRedoTimer
    \/ AutosaveTimer

\* inputs, undo and redo with the timers of handleMarkdownInput
SpecInput == InitInput /\ [][NextInput]_vars

\* the event loop runs every timer callback that is due: the first render
\* and the debounce timer, the autosave timer and the timer of undo and redo
FairInput ==
    /\ SpecInput
    /\ WF_vars(\E now \in Clock : RenderTimeline(now))
    /\ WF_vars(AutosaveTimer)
    /\ WF_vars(UndoRedoTimer)

\* the application before TimelineApp.init: the editor holds a text,
\* localStorage holds a theme the user chose in an earlier session or none,
\* and the system has a colour scheme
InitTheme ==
    /\ raw \in InputTexts
    /\ showSwimlanes = FALSE
    /\ tz = 0
    /\ legacy = None
    /\ pc = "start"
    /\ title = None
    /\ body = <<>>
    /\ bodyOffset = 0
    /\ blocks = <<>>
    /\ parsed = <<>>
    /\ allEvents = <<>>
    /\ uniqueGroups = <<>>
    /\ isSwimlaneMode = FALSE
    /\ today = 0
    /\ insertIndex = None
    /\ children = <<>>
    /\ token = <<>>
    /\ result = Return(Failure)
    /\ AppIdle
    /\ currentTheme = "light"
    /\ storedTheme \in {None, Some("light"), Some("dark")}
    /\ systemDark \in BOOLEAN
    /\ toggled = (storedTheme # None)

NextTheme ==
    \/ LoadTheme
    \/ NextPresentation
    \/ ToggleTheme
    \/ SystemThemeChange

\* the start of the application, the theme button and the colour scheme
\* of the system, with the presentation window
SpecTheme == InitTheme /\ [][NextTheme]_vars

InitDate ==
    /\ token \in Tokens
    /\ tz \in TimeZones
    /\ legacy \in Engines
    /\ pc = "call"
    /\ raw = <<>>
    /\ showSwimlanes = FALSE
    /\ title = None
    /\ body = <<>>
    /\ bodyOffset = 0
    /\ blocks = <<>>
    /\ parsed = <<>>
    /\ allEvents = <<>>
    /\ uniqueGroups = <<>>
    /\ isSwimlaneMode = FALSE
    /\ today = 0
    /\ insertIndex = None
    /\ children = <<>>
    /\ result = Return(Failure)
    /\ AppIdle
    /\ ThemeApplied

NextDate == ParseDateCall

\* one call of parseDate
SpecDate == InitDate /\ [][NextDate]_vars

\* ------------------------------------------------------------------------
\* Properties of the blocks and their offsets
\* ------------------------------------------------------------------------
Rendered == pc = "rendered"

IsLineBreak(c) == c \in {CR, LF}

\* a line that consists of --- alone starts at index i of s and is terminated
SeparatorLineAt(s, i) ==
    /\ i = 1 \/ IsLineBreak(s[i - 1])
    /\ StartsAt(s, Dashes, i)
    /\ i + Len(Dashes) <= Len(s)
    /\ IsLineBreak(s[i + Len(Dashes)])

\* the index after the line terminator at index i of s
AfterLineBreak(s, i) ==
    IF s[i] = CR /\ i + 1 <= Len(s) /\ s[i + 1] = LF THEN i + 2 ELSE i + 1

\* the segments the separator lines cut s into, from index start on
RECURSIVE SegmentsFrom(_, _)
SegmentsFrom(s, start) ==
    Let(FirstIndex(start, Len(s), LAMBDA k : SeparatorLineAt(s, k)), LAMBDA i :
        IF i > Len(s) THEN <<SubSeq(s, start, Len(s))>>
        ELSE <<SubSeq(s, start, i - 1)>>
             \o SegmentsFrom(s, AfterLineBreak(s, i + Len(Dashes))))

Segments(s) == SegmentsFrom(s, 1)

IsNonBlank(s) == Trim(s) # <<>>

NonBlankSegments(s) == SelectSeq(Segments(s), IsNonBlank)

\* C1: after a render, parseEvents has returned one event for each segment
\* between separator lines that holds a character other than whitespace, in
\* the order of the source, and none for the others, whatever the segments
\* hold.
OneEventPerSegment ==
    Rendered =>
        /\ Len(parsed) = Len(NonBlankSegments(body))
        /\ \A i \in 1..Len(parsed) :
               /\ i <= Len(NonBlankSegments(body))
               /\ Trim(blocks[i].text) = Trim(NonBlankSegments(body)[i])

\* a render of two separator lines in a row: the second one became an event
SeparatorLineBecameEvent ==
    /\ Rendered
    /\ raw = Dashes \o <<LF>> \o Dashes \o <<LF>>
    /\ Len(parsed) = 1
    /\ blocks[1].text = Dashes

\* C2: after a render, bodyOffset is the index of the raw text at which the
\* body starts, and the raw text from startPos to endPos of each event is
\* the text of the event's block.
OffsetsAddressRawText ==
    Rendered /\ parsed # <<>> =>
        /\ bodyOffset >= 0
        /\ Substring(raw, bodyOffset, Len(raw)) = body
        /\ \A i \in 1..Len(parsed) :
               Substring(raw, parsed[i].startPos, parsed[i].endPos) = blocks[i].text

\* a render of a text whose title follows two blank lines: the body is not found in it
BodyNotFoundInRawText ==
    /\ Rendered
    /\ raw = <<LF, LF, "#", SP, "a", LF, "a">>
    /\ title = Some(<<"a">>)
    /\ body = <<LF, LF, "a">>
    /\ bodyOffset = -1
    /\ parsed[1].startPos = -1

\* C3: after a render, every event has startPos < endPos, and of two events
\* the earlier in parse order ends before the later starts.
RangesOrderedAndDisjoint ==
    Rendered =>
        /\ \A i \in 1..Len(parsed) : parsed[i].startPos < parsed[i].endPos
        /\ \A i, j \in 1..Len(parsed) : i < j => parsed[i].endPos <= parsed[j].startPos

\* a render that found two events, a separator between them
TwoEventsAroundSeparator ==
    /\ Rendered
    /\ Len(parsed) = 2
    /\ parsed[1].endPos + Len(Dashes) + 2 = parsed[2].startPos

\* C9: after a render, no block holds a terminated line that consists of ---
\* alone, and when the text after the last such line is not blank the last
\* block runs to the end of the body.
EverySeparatorLineSplits ==
    Rendered =>
        /\ \A i \in 1..Len(blocks) :
               \A k \in 1..Len(blocks[i].text) : ~SeparatorLineAt(blocks[i].text, k)
        /\ IsNonBlank(Segments(body)[Len(Segments(body))]) =>
               /\ blocks # <<>>
               /\ blocks[Len(blocks)].end = bodyOffset + Len(body)

\* a render of a text that starts with a separator line: the line is part of a block
SeparatorLineInsideBlock ==
    /\ Rendered
    /\ raw = Dashes \o <<LF, "a">>
    /\ Len(blocks) = 1
    /\ blocks[1].text = raw

\* ------------------------------------------------------------------------
\* Properties of the title
\* ------------------------------------------------------------------------
\* C8: after a render, if the first line of the raw text that is not blank
\* gives a title, the title is that one and the body is the lines of the
\* raw text without that line, in their order; if not, there is no title
\* and the body is the raw text.
TitleLineRemovedElseWholeInput ==
    Rendered =>
        LET lines == SplitLF(ReplaceCRLF(raw))
            i     == FirstNonBlank(lines, 1)
            found == IF i <= Len(lines) THEN TitleOfLine(lines[i]) ELSE <<>>
        IN  IF found # <<>>
            THEN title = Some(found) /\ body = JoinLF(RemoveAt(lines, i))
            ELSE title = None /\ body = raw

\* a render of a text without a title and with a CRLF line break: the body is another text
BodyDiffersFromRawText ==
    /\ Rendered
    /\ raw = <<"a", CR, LF, "a">>
    /\ title = None
    /\ body = <<"a", LF, "a">>

\* ------------------------------------------------------------------------
\* Properties of the dates of the events
\* ------------------------------------------------------------------------
\* the values of the date: lines of a block, in the order of the lines
DateValues(text) ==
    LET lines == SplitLF(Trim(text))
        HasValue(m) == m # None /\ m[1] # <<>>
    IN  SelectSeq([k \in 1..Len(lines) |-> KeyValue(lines[k], DateKey)], HasValue)

ErrorMark == <<"*", "*", "F", "e", "h", "l", "e", "r", ":", "*", "*">>

\* C7: after a render, an event has the sentinel date exactly if its block
\* gave no date value or parseDate failed on the value; then its content
\* starts with the notice, the one for no date or the one that names the
\* value; and if the value parsed, the event has neither the sentinel date
\* nor a notice.
SentinelIffNoValidDate ==
    Rendered =>
        \A i \in 1..Len(parsed) :
            LET values == DateValues(blocks[i].text)
                given  == values # <<>>
                value  == values[Len(values)][1]
                failed == given /\ parseDate(value).date = None
            IN  /\ parsed[i].date = Epoch <=> (~given \/ failed)
                /\ ~given => StartsAt(parsed[i].content, NoDateMsg \o <<LF, LF>>, 1)
                /\ failed => StartsAt(parsed[i].content, InvalidDateMsg(value) \o <<LF, LF>>, 1)
                /\ given /\ ~failed =>
                       /\ parsed[i].date # Epoch
                       /\ ~StartsAt(parsed[i].content, ErrorMark, 1)

\* a render of a block dated 1970-01-01: the date parsed, and it is the sentinel
ParsedDateIsSentinel ==
    /\ Rendered
    /\ raw = <<"d", "a", "t", "e", ":", SP, "1", "9", "7", "0", "-", "0", "1", "-", "0", "1">>
               \o <<LF, "x">>
    /\ parsed[1].date = Epoch
    /\ parsed[1].content = <<"x">>

\* ------------------------------------------------------------------------
\* Properties of the layout
\* ------------------------------------------------------------------------
\* C4: after a render, in lane mode or not, the events are in an order in
\* which no date is later than a date after it.
RenderedOrderSortedByDate ==
    Rendered =>
        \A i \in 1..(Len(allEvents) - 1) : allEvents[i].date <= allEvents[i + 1].date

\* a render in lane mode of blocks that stand in another order than their dates
LaneRenderOfUnorderedBlocks ==
    /\ Rendered
    /\ isSwimlaneMode
    /\ \E i, j \in 1..Len(parsed) : i < j /\ parsed[i].date > parsed[j].date
    /\ allEvents # parsed

Lanes == {parsed[i].group : i \in 1..Len(parsed)}

\* C5: after a render, lane mode is on exactly if swimlanes were asked for
\* and the events are in two lanes or more.
LaneModeIffRequestedAndTwoLanes ==
    Rendered => (isSwimlaneMode <=> showSwimlanes /\ Cardinality(Lanes) >= 2)

\* a render with swimlanes asked for of several events in one lane: no lane mode
OneLaneRenderedLinearly ==
    /\ Rendered
    /\ showSwimlanes
    /\ Len(parsed) >= 2
    /\ Cardinality(Lanes) = 1
    /\ ~isSwimlaneMode

\* the events of the rendered order with a date other than the sentinel
Dated == SelectSeq(allEvents, LAMBDA e : e.date # Epoch)

\* local midnight of the local day of the instant t
LocalMidnight(t) == t - ((t + tz) % SecondsPerDay)

\* the 0-based positions in Dated of the events of a day not before today
NotBeforeToday == {i \in 0..(Len(Dated) - 1) : LocalMidnight(Dated[i + 1].date) >= today}

\* C6: after a render with a dated event, insertIndex is the position among
\* the dated events, in rendered order, of the first whose day is not before
\* today, and their number if there is none: 1 for an event of yesterday and
\* one of tomorrow, the end of the list if all are past, 0 if all are to come.
TodayMarkerIndex ==
    Rendered /\ parsed # <<>> =>
        /\ insertIndex = None <=> Dated = <<>>
        /\ Dated # <<>> =>
               /\ insertIndex[1] \in 0..Len(Dated)
               /\ NotBeforeToday = {} => insertIndex[1] = Len(Dated)
               /\ NotBeforeToday # {} =>
                      /\ insertIndex[1] \in NotBeforeToday
                      /\ \A i \in NotBeforeToday : insertIndex[1] <= i
               /\ (/\ Len(Dated) = 2
                   /\ LocalMidnight(Dated[1].date) = today - SecondsPerDay
                   /\ LocalMidnight(Dated[2].date) = today + SecondsPerDay)
                      => insertIndex[1] = 1
               /\ (\A i \in 1..Len(Dated) : LocalMidnight(Dated[i].date) < today)
                      => insertIndex[1] = Len(Dated)
               /\ (\A i \in 1..Len(Dated) : LocalMidnight(Dated[i].date) > today)
                      => insertIndex[1] = 0

\* a render of an event of today, earlier than the render, after one of
\* yesterday: the marker goes between them
MarkerBeforeEventOfToday ==
    /\ Rendered
    /\ Len(Dated) = 2
    /\ LocalMidnight(Dated[1].date) = today - SecondsPerDay
    /\ Dated[2].date > today
    /\ LocalMidnight(Dated[2].date) = today
    /\ insertIndex = Some(1)

\* ------------------------------------------------------------------------
\* Properties of parseDate
\* ------------------------------------------------------------------------
\* what the formats make of the token s, each on its own: <<>> when the
\* format does not accept s, else <<the result>>
ByQuarter(s) == QuarterBranch(s)
ByMonthName(s) == MonthNameBranch(s)
ByDateConstructor(s) ==
    IF NewDate(s) = None THEN None
    ELSE Some([date |-> NewDate(s), displayString |-> None, hasTime |-> HasColon(s)])
ByDayMonthYear(s) ==
    IF GermanDateMatch(s) = None THEN None ELSE Some(CatchBlock(s).value)

\* the result of the first format of the sequence that accepts s, the failure value if none does
RECURSIVE FirstAccepted(_)
FirstAccepted(results) ==
    IF results = <<>> THEN Failure
    ELSE IF results[1] # None THEN results[1][1]
    ELSE FirstAccepted(Tail(results))

\* C10: a call of parseDate returns, and what it returns is the result of
\* the first of quarter, month name and year, Date constructor and
\* day.month.year that accepts the token, the failure value if none does.
FirstAcceptingGrammarWins ==
    pc = "returned" =>
        /\ result.type = "return"
        /\ result.value = FirstAccepted(<<ByQuarter(token), ByMonthName(token),
                                          ByDateConstructor(token), ByDayMonthYear(token)>>)

\* a call with a day.month.year token that the Date constructor accepts
\* too: the constructor's date is returned
ConstructorBeforeDayMonthYear ==
    /\ pc = "returned"
    /\ legacy # None
    /\ ByDayMonthYear(token) # None
    /\ ByDayMonthYear(token)[1].date # legacy
    /\ result.value.date = legacy

\* ------------------------------------------------------------------------
\* Properties of the content and the metadata of the events
\* ------------------------------------------------------------------------
MetadataKeys == {DateKey, EndDateKey, ClassKey, GroupKey, LaneKey}

\* the line starts with one of the metadata keys, in any case
IsMetadataLine(line) == \E key \in MetadataKeys : StartsAtCI(line, key, 1)

IsContentLine(line) == ~IsMetadataLine(line)

\* the lines of a block
LinesOf(text) == SplitLF(Trim(text))

\* the content without the notice and the empty line that follows it
WithoutNotice(content) ==
    IF StartsAt(content, ErrorMark, 1)
    THEN Substring(content, IndexOf(content, <<LF, LF>>) + 2, Len(content))
    ELSE content

\* C11: after a render, the content of every event, after the notice if it
\* has one, is the lines of its block that do not start with a metadata
\* key, in their order, joined and trimmed: no other line is dropped and no
\* line with a metadata key is in the content.
ContentIsNonMetadataLines ==
    Rendered =>
        \A i \in 1..Len(parsed) :
            WithoutNotice(parsed[i].content)
                = Trim(JoinLF(SelectSeq(LinesOf(blocks[i].text), IsContentLine)))

\* a render of a block with a date: line without a value: the line is in the content
KeyOnlyLineInContent ==
    /\ Rendered
    /\ raw = <<"d", "a", "t", "e", ":", SP, "2", "0", "2", "5", "-", "0", "1", "-", "1", "5">>
               \o <<LF>> \o DateKey \o <<LF, "x">>
    /\ parsed[1].date # Epoch
    /\ parsed[1].content = DateKey \o <<LF, "x">>

\* the event of the block when the loop over its lines skips line k
EventWithoutLine(block, k) ==
    eventData(block, ScanLines(BlockStart, RemoveAt(LinesOf(block.text), k), 1))

RECURSIVE SkipNonWs(_, _)
SkipNonWs(s, i) == IF i <= Len(s) /\ ~IsWs(s[i]) THEN SkipNonWs(s, i + 1) ELSE i

\* the value of a class: line, <<>> if the line is none or has no value
ClassToken(line) ==
    IF ~StartsAtCI(line, ClassKey, 1) THEN <<>>
    ELSE Let(SkipWs(line, Len(ClassKey) + 1), LAMBDA from :
             SubSeq(line, from, SkipNonWs(line, from) - 1))

UnrecognisedClassLine(line) ==
    ClassToken(line) # <<>> /\ LowerStr(ClassToken(line)) \notin VALID_EVENT_CLASSES

GivesLane(line) == GroupValue(line) # None /\ GroupValue(line)[1] # <<>>

\* C13: after a render, the category of every event is null or is-<c> for a
\* c of the fixed set, its lane is not empty and is Default when no line of
\* the block gives a lane, and a class: line with a value outside the set
\* leaves the category, the date and the content (so no notice is added) as
\* they are without the line.
CategoryAndLaneValidated ==
    Rendered =>
        \A i \in 1..Len(parsed) :
            LET lines == LinesOf(blocks[i].text)
            IN  /\ parsed[i].eventClass \in
                       {None} \cup {Some(<<"i", "s", "-">> \o c) : c \in VALID_EVENT_CLASSES}
                /\ parsed[i].group # <<>>
                /\ (\A k \in 1..Len(lines) : ~GivesLane(lines[k]))
                       => parsed[i].group = DefaultGroup
                /\ (\A k \in 1..Len(lines) :
                        ClassToken(lines[k]) # <<>> => UnrecognisedClassLine(lines[k]))
                       => parsed[i].eventClass = None
                /\ \A k \in 1..Len(lines) :
                       UnrecognisedClassLine(lines[k]) =>
                           Let(EventWithoutLine(blocks[i], k), LAMBDA e :
                               /\ parsed[i].eventClass = e.eventClass
                               /\ parsed[i].date = e.date
                               /\ parsed[i].content = e.content)

\* a render of a block with a class: line whose value is no word: the line is in the content
UnrecognisedClassInContent ==
    /\ Rendered
    /\ raw = <<"d", "a", "t", "e", ":", SP, "2", "0", "2", "5", "-", "0", "1", "-", "1", "5">>
               \o <<LF>> \o ClassKey \o <<SP, "-", LF, "x">>
    /\ parsed[1].eventClass = None
    /\ parsed[1].content = ClassKey \o <<SP, "-", LF, "x">>

\* the value of an end_date: line, <<>> if the line is none or has no value
EndDateValue(line) ==
    IF KeyValue(line, DateKey) # None \/ KeyValue(line, EndDateKey) = None THEN <<>>
    ELSE KeyValue(line, EndDateKey)[1]

FailedEndDateLine(line) == EndDateValue(line) # <<>> /\ parseDate(EndDateValue(line)).date = None

\* the indexes of the lines that give an end date value
EndDateLines(lines) == {k \in 1..Len(lines) : EndDateValue(lines[k]) # <<>>}

\* C14: after a render, an event whose block's end_date: value (the last
\* one, if there are several) does not parse has the endDate null, and an
\* end_date: line whose value does not parse leaves the date, the display
\* label, the category, the lane and the content (so no notice is added) as
\* they are without the line.
FailedEndDateIgnored ==
    Rendered =>
        \A i \in 1..Len(parsed) :
            LET lines == LinesOf(blocks[i].text)
                given == EndDateLines(lines)
                last  == CHOOSE k \in given : \A j \in given : j <= k
            IN  /\ (given # {} /\ FailedEndDateLine(lines[last])) => parsed[i].endDate = None
                /\ \A k \in 1..Len(lines) :
                       FailedEndDateLine(lines[k]) =>
                           Let(EventWithoutLine(blocks[i], k), LAMBDA e :
                               /\ parsed[i].date = e.date
                               /\ parsed[i].displayDateString = e.displayDateString
                               /\ parsed[i].eventClass = e.eventClass
                               /\ parsed[i].group = e.group
                               /\ parsed[i].content = e.content)

\* a render of a dated block whose end_date: value does not parse
EndDateFailedDateKept ==
    /\ Rendered
    /\ legacy = None
    /\ raw = <<"d", "a", "t", "e", ":", SP, "2", "0", "2", "5", "-", "0", "1", "-", "1", "5">>
               \o <<LF>> \o EndDateKey \o <<SP, "f", "o", "o", LF, "x">>
    /\ parsed[1].date # Epoch
    /\ parsed[1].endDate = None
    /\ parsed[1].content = <<"x">>

\* ------------------------------------------------------------------------
\* Properties of the order of events of the same date
\* ------------------------------------------------------------------------
\* the position in parse order of the event e
ParseIndex(e) == CHOOSE i \in 1..Len(parsed) : parsed[i].startPos = e.startPos

\* the lanes in the order in which the document declares them first
DeclaredLanes ==
    LET FirstOfLane(i) == \A j \in 1..(i - 1) : parsed[j].group # parsed[i].group
        firsts == {i \in 1..Len(parsed) : FirstOfLane(i)}
        Nth(n) == CHOOSE i \in firsts : Cardinality({j \in firsts : j < i}) = n - 1
    IN  [n \in 1..Cardinality(firsts) |-> parsed[Nth(n)].group]

\* C15: after a render, events of the same date are in parse order in
\* linear mode; in lane mode the lane list holds every lane once, in the
\* order in which the document declares them first, events of the same date
\* are in the order of their lanes in that list, and those of the same lane
\* in parse order.
TiesByParseOrderOrDeclaredLane ==
    Rendered =>
        /\ ~isSwimlaneMode =>
               \A i, j \in 1..Len(allEvents) :
                   i < j /\ allEvents[i].date = allEvents[j].date
                       => ParseIndex(allEvents[i]) < ParseIndex(allEvents[j])
        /\ isSwimlaneMode =>
               /\ uniqueGroups = DeclaredLanes
               /\ \A i, j \in 1..Len(allEvents) :
                      i < j /\ allEvents[i].date = allEvents[j].date =>
                          /\ ArrayIndexOf(DeclaredLanes, allEvents[i].group)
                                 <= ArrayIndexOf(DeclaredLanes, allEvents[j].group)
                          /\ allEvents[i].group = allEvents[j].group
                                 => ParseIndex(allEvents[i]) < ParseIndex(allEvents[j])

\* a render in lane mode of a document that declares lane A first, on its
\* latest event: the lane list starts with the lane of the earliest event
LaneListInDateOrder ==
    /\ Rendered
    /\ isSwimlaneMode
    /\ Len(parsed) = 2
    /\ parsed[1].group = <<"A">>
    /\ parsed[1].date > parsed[2].date
    /\ parsed[2].date # Epoch
    /\ uniqueGroups = <<DefaultGroup, <<"A">>>>

\* ------------------------------------------------------------------------
\* Properties of the today marker among the rendered items
\* ------------------------------------------------------------------------
IsMarker(n) == n.node = "current-date-marker"

IsDatedItem(n) == n.node = "timeline-item" /\ n.event[1].date # Epoch

\* the position of the today marker among the children of the container
MarkerAt == CHOOSE m \in 1..Len(children) : IsMarker(children[m])

\* C20: after a render with a dated event, the items of all events and one
\* today marker are in the container; every dated item before the marker
\* is of a day before today and every dated item after it of today or
\* later; the marker is the last node when no dated event is of today or
\* later.
MarkerSeparatesPastFromComing ==
    Rendered /\ Dated # <<>> =>
        /\ Len(children) = Len(allEvents) + 1
        /\ \E m \in 1..Len(children) : IsMarker(children[m])
        /\ \A k \in 1..Len(children) :
               IsDatedItem(children[k]) =>
                   (k < MarkerAt <=> LocalMidnight(children[k].event[1].date) < today)
        /\ NotBeforeToday = {} => MarkerAt = Len(children)

\* a render of a block without a date, an event of yesterday and one of
\* tomorrow: the marker is before the event of yesterday
MarkerBeforePastEvent ==
    /\ Rendered
    /\ Len(children) = 4
    /\ IsMarker(children[2])
    /\ children[1].event[1].date = Epoch
    /\ IsDatedItem(children[3])
    /\ LocalMidnight(children[3].event[1].date) = today - SecondsPerDay
    /\ LocalMidnight(children[4].event[1].date) = today + SecondsPerDay

\* ------------------------------------------------------------------------
\* Properties of an input that changes one block
\* ------------------------------------------------------------------------
\* the parts of an event that do not depend on where its block stands
SameEvent(a, b) ==
    /\ a.date = b.date
    /\ a.endDate = b.endDate
    /\ a.displayDateString = b.displayDateString
    /\ a.eventClass = b.eventClass
    /\ a.group = b.group
    /\ a.content = b.content

\* C12: after the render that follows the replacement of one block by a
\* text that is not blank, there are as many events as before, and every
\* event but that of the replaced block has the date, end date, display
\* label, category, lane and content it had before.
SiblingsUnaffectedByEdit ==
    Rendered /\ editedBlock # 0 =>
        /\ Len(parsed) = Len(prevParsed)
        /\ \A i \in 1..Len(parsed) :
               i # editedBlock /\ i <= Len(prevParsed) => SameEvent(parsed[i], prevParsed[i])

\* the first of three blocks replaced by a block whose date does not
\* parse: its event turned into one with the sentinel date, the others kept theirs
BadBlockBetweenDatedSiblings ==
    /\ Rendered
    /\ editedBlock = 1
    /\ Len(parsed) = 3
    /\ prevParsed[1].date # Epoch
    /\ parsed[1].date = Epoch
    /\ StartsAt(parsed[1].content, ErrorMark, 1)
    /\ parsed[2].date # Epoch
    /\ parsed[2].group # parsed[3].group

\* ------------------------------------------------------------------------
\* Properties of the presentation window
\* ------------------------------------------------------------------------
\* the presentation window has handled every message and shows the editor's text
PresentationUpToDate ==
    /\ Rendered
    /\ isOpen
    /\ channel = <<>>
    /\ presMarkdown = Some(raw)

\* C16: when the presentation window has handled the update for the text
\* the main window shows, it shows the same events in the same order as the
\* main window, in lane mode or not.
PresentationShowsSameOrder ==
    PresentationUpToDate => presEvents = allEvents

\* the presentation window up to date with a main window in lane mode:
\* two events of one date are in the order of their lanes in the main
\* window and in parse order in the presentation window
LaneOrderNotInPresentation ==
    /\ PresentationUpToDate
    /\ isSwimlaneMode
    /\ Len(allEvents) = 3
    /\ allEvents[2].date = allEvents[3].date
    /\ allEvents[2].date # Epoch
    /\ presEvents = <<allEvents[1], allEvents[3], allEvents[2]>>

\* String.prototype.includes
Includes(s, p) == IndexOf(s, p) >= 0

\* the value a filter checkbox has for the category of an event
FilterValueOf(e) ==
    IF e.eventClass = None THEN "none"
    ELSE CHOOSE v \in FilterValues \ {"none"} :
             e.eventClass[1] = <<"i", "s", "-">> \o [i \in 1..Len(v) |-> SubSeq(v, i, i)]

\* an event passes the filters and the query
Passes(e, filters, query) ==
    /\ FilterValueOf(e) \in filters
    /\ query = <<>> \/ Includes(LowerStr(e.content), query)

\* C17: when the presentation window has handled every update and no
\* search timer is set, its filters and its search query are those of the
\* main window, and it shows an event exactly if the main window shows it.
FiltersAndSearchSynchronised ==
    PresentationUpToDate /\ ~searchTimeoutId =>
        /\ presFilters = activeFilters
        /\ presQuery = searchInput
        /\ \A i \in 1..Len(allEvents) :
               Passes(allEvents[i], activeFilters, LowerStr(Trim(searchInput)))
                   <=> Passes(allEvents[i], presFilters, LowerStr(presQuery))

\* the presentation window up to date after the first update: no filter
\* is active in it, all are in the main window
PresentationFiltersEmpty ==
    /\ PresentationUpToDate
    /\ ~searchTimeoutId
    /\ activeFilters = FilterValues
    /\ searchInput = <<>>
    /\ presFilters = {}
    /\ presEvents # <<>>

\* ------------------------------------------------------------------------
\* Properties of the undo history
\* ------------------------------------------------------------------------
\* a step of handleMarkdownInput that calls saveToHistory with the value
\* the history ends with
SavesLastEntry ==
    /\ undoHistory # <<>>
    /\ MarkdownInput(undoHistory[Len(undoHistory)])

\* C18: no two neighbours of the undo history are equal, and a call of
\* saveToHistory with the value the history ends with changes neither the
\* undo history, the redo history nor the persisted history.
NoEqualNeighboursInHistory ==
    /\ [](\A i \in 1..(Len(undoHistory) - 1) : undoHistory[i] # undoHistory[i + 1])
    /\ [][SavesLastEntry => UNCHANGED <<undoHistory, redoHistory, storedHistory>>]_vars

\* the text, the empty text and the text saved, two undo and one redo: the
\* history holds the text twice in a row
TextTwiceInHistory ==
    /\ undoHistory = <<<<>>, <<"a">>, <<"a">>>>
    /\ redoHistory = <<>>
    /\ undone = 2

\* a step of handleMarkdownInput that saves a value the history does not
\* end with when MAX_SIZE states are held
SavesAtCapacity ==
    /\ ~isUndoRedoAction
    /\ Len(undoHistory) = MAX_SIZE
    /\ \E value \in HistoryTexts \ {undoHistory[Len(undoHistory)]} : MarkdownInput(value)

\* C19: the undo history never holds more than MAX_SIZE states, and a call
\* of saveToHistory that adds a state when MAX_SIZE are held drops the
\* oldest one and keeps the others in their order.
HistoryHoldsLastFifty ==
    /\ [](Len(undoHistory) <= MAX_SIZE)
    /\ [][SavesAtCapacity => undoHistory' = Append(Tail(undoHistory), raw')]_vars

\* no undo so far and MAX_SIZE states held, the oldest of them the text
\* the editor started with: the first state saved, the empty text, was dropped
OldestStateDropped ==
    /\ undone = 0
    /\ Len(undoHistory) = MAX_SIZE
    /\ undoHistory[1] = <<"a">>

\* ------------------------------------------------------------------------
\* Properties of the connectors
\* ------------------------------------------------------------------------
\* the least position after i whose event does not start before event i
\* ends, 0 if there is none
ConnectorEnd(i) ==
    LET later == {j \in (i + 1)..Len(allEvents) : allEvents[j].date >= allEvents[i].endDate[1]}
    IN  IF later = {} THEN 0 ELSE CHOOSE j \in later : \A k \in later : j <= k

\* the span from item i to the item its event ends at, or to the bottom
\* edge of the last item
ConnectorSpan(i) ==
    LET top(k) == OffsetTop(ChildPosition(children, k))
    IN  IF ConnectorEnd(i) = 0 THEN top(Len(allEvents)) + rowHeight - top(i)
        ELSE top(ConnectorEnd(i)) - top(i)

PresentationSpanRows(k) ==
    LET later == {j \in (k + 1)..Len(presEvents) : presEvents[j].date >= presEvents[k].endDate[1]}
    IN  IF later = {} THEN Len(presEvents) + 1 - k
        ELSE (CHOOSE j \in later : \A i \in later : j <= i) - k

\* the next item of the lane of item i, 0 if it is the lane's last
NextOfLane(i) ==
    LET later == {j \in (i + 1)..Len(allEvents) : allEvents[j].group = allEvents[i].group}
    IN  IF later = {} THEN 0 ELSE CHOOSE j \in later : \A k \in later : j <= k

\* the height of the connection line from item i to the next item of its
\* lane, as the layout is
LaneLine(i) ==
    OffsetTop(ChildPosition(children, NextOfLane(i))) - OffsetTop(ChildPosition(children, i)) - 29

\* C22: the connector pass can run again on a render it has processed: no
\* item of the main window or of the presentation window ever carries more
\* than one duration bar, and after a run of calculateConnectionLines on a
\* lane render the connection line of every item has the height the
\* measurements of that run give (none where they give no positive
\* height).
ConnectorPassIdempotent ==
    /\ [](\A i \in 1..Len(bars) : Len(bars[i]) <= 1)
    /\ [](\A k \in 1..Len(presBars) : Len(presBars[k]) <= 1)
    /\ [][ConnectionLinesTimer /\ isSwimlaneMode =>
            \A i \in 1..Len(allEvents) :
               lineHeight'[i] = IF NextOfLane(i) # 0 /\ LaneLine(i) > 0
                                THEN Some(LaneLine(i)) ELSE None]_vars

\* an item of the presentation window carries two duration bars
TwoBarsOnOneItem ==
    \E k \in 1..Len(presBars) : Len(presBars[k]) = 2

\* C26: when every pending duration-bar pass of the presentation window
\* has run, an item carries a duration bar only if its event in the latest
\* render has an end date after its date, it carries at most one, and the
\* bar spans the rows to the item that event ends at.
OlderPassLeavesNewerRenderAlone ==
    presTimers = <<>> =>
        \A k \in 1..Len(presBars) :
            /\ Len(presBars[k]) <= 1
            /\ presBars[k] # <<>> =>
                   /\ HasDuration(presEvents[k])
                   /\ \E height \in RowHeights :
                          presBars[k][1] = PresentationSpanRows(k) * height

\* all passes have run, and an item whose event has no end date carries a
\* duration bar
BarFromOlderRender ==
    /\ presTimers = <<>>
    /\ \E k \in 1..Len(presBars) : presBars[k] # <<>> /\ ~HasDuration(presEvents[k])

\* the lanes of the render
RenderedLanes == {allEvents[i].group : i \in 1..Len(allEvents)}

\* the items of a lane of the render, in rendered order
ItemsOfLane(group) == {i \in 1..Len(allEvents) : allEvents[i].group = group}

NoValidDate == allEvents # <<>> /\ ValidEvents(allEvents) = <<>>

\* C24: when no event of the render has a valid date, every event is still
\* rendered as an item, no item gets a duration bar, and the today marker
\* is the last child of the container.
UndatedEventsLaidOut ==
    NoValidDate =>
        /\ Len(ItemTops(children)) = Len(allEvents)
        /\ \A i \in 1..Len(bars) : bars[i] = <<>>
        /\ children[Len(children)] = MarkerNode

\* a render of undated events only: all of them are items, one of them has
\* a duration bar, and the container has no today marker
UndatedRenderWithoutMarker ==
    /\ NoValidDate
    /\ Len(ItemTops(children)) = Len(allEvents)
    /\ \E i \in 1..Len(bars) : bars[i] # <<>>
    /\ \A p \in 1..Len(children) : children[p] # MarkerNode

\* C27: after an undo with at least two states in the undo history the
\* editor's text is the new last entry of the undo history.
UndoRestoresPreviousState ==
    [][(\E now \in Clock : Undo(now)) => raw' = undoHistory'[Len(undoHistory')]]_vars

\* an undo has left the editor's text "a" in place although the state saved
\* before it, the last entry of the undo history, is the empty text
EmptyStateNotRestored ==
    /\ undone >= 1
    /\ undoHistory = <<<<>>>>
    /\ redoHistory = <<<<"a">>>>
    /\ raw = <<"a">>

\* C28: undo and redo change the editor's text and the histories as
\* Storage.undo and Storage.redo do, and whenever undo changes anything,
\* undo followed by redo gives back the text, the undo history and the redo
\* history as they were.
UndoThenRedoIsIdentity ==
    /\ [][(\E now \in Clock : Undo(now)) => HistoryState' = undo(HistoryState)]_vars
    /\ [][(\E now \in Clock : Redo(now)) => HistoryState' = redo(HistoryState)]_vars
    /\ [](undo(HistoryState) # HistoryState => redo(undo(HistoryState)) = HistoryState)

\* the empty text is the editor's text and the last entry of the undo
\* history: undo takes it from the undo history without putting it on the
\* redo history, and redo has nothing to give back
UndoneEmptyStateLost ==
    /\ raw = <<>>
    /\ Len(undoHistory) >= 2
    /\ undoHistory[Len(undoHistory)] = <<>>
    /\ redoHistory = <<>>
    /\ undo(HistoryState).redoHistory = <<>>
    /\ redo(undo(HistoryState)) = undo(HistoryState)
    /\ redo(undo(HistoryState)) # HistoryState

\* the timeline shows the render of a text
ShowsText(text) ==
    Let(extractTitleFromMarkdown(text), LAMBDA top :
        /\ title = top.title
        /\ body = top.body
        /\ blocks = IF Trim(top.body) = <<>> THEN <<>>
                    ELSE eventBlocks(top.body, IndexOf(text, top.body)))

\* C25: at most one debounced parse is pending, whatever inputs arrive; the
\* parse that fires renders the text the editor holds at that moment; and a
\* parse that is due is followed by a timeline that shows the editor's
\* text with no parse pending.
OnlyLatestInputParsed ==
    /\ [](debounceTimers <= 1)
    /\ [][(\E now \in Clock : RenderTimeline(now)) => ShowsText(raw)']_vars
    /\ (pc = "edit") ~> (pc = "rendered" /\ debounceTimers = 0 /\ ShowsText(raw))

\* the timeline still shows the text "a" the application started with, the
\* empty text and then "b" have been put in, and one parse is pending: the
\* second input has cleared the timer of the first
LaterInputReplacedPendingParse ==
    /\ pc = "edit"
    /\ debounceTimers = 1
    /\ undone = 0
    /\ undoHistory = <<<<>>, <<"b">>>>
    /\ raw = <<"b">>
    /\ ShowsText(<<"a">>)

\* an operation has changed the editor's text since the application started
Operated == undoHistory # <<>> \/ undone > 0

\* C29: after an input, an undo or a redo, a state in which the content
\* saved in localStorage is not the editor's text is followed by one in
\* which it is.
AutosaveFollowsEveryChange ==
    (Operated /\ autosaved # Some(raw)) ~> (autosaved = Some(raw))

\* every timer has run after an undo, and the content saved in
\* localStorage is not the editor's text
UndoneTextNotSaved ==
    /\ undone > 0
    /\ pc = "rendered"
    /\ debounceTimers = 0
    /\ autosaveTimers = 0
    /\ ~isUndoRedoAction
    /\ autosaved # None
    /\ autosaved # Some(raw)

\* C30: while the user has never toggled the theme, no theme is stored
\* once the application has started, and a change of the system's colour
\* scheme makes that scheme the theme; once the user has toggled the theme,
\* a change of the system's colour scheme leaves the theme alone.
ThemeFollowsSystemUntilToggled ==
    /\ [](pc # "start" /\ ~toggled => ~hasThemePreference)
    /\ [][SystemThemeChange /\ ~toggled => currentTheme' = getSystemThemePreference']_vars
    /\ [][SystemThemeChange /\ toggled => currentTheme' = currentTheme]_vars

\* the user has never toggled the theme, the application has started and
\* has stored the light theme, and the system's colour scheme is dark
SystemSchemeIgnoredWithoutToggle ==
    /\ pc # "start"
    /\ ~toggled
    /\ storedTheme = Some("light")
    /\ currentTheme = "light"
    /\ systemDark

====
